---------------------------- MODULE Spec2Model ----------------------------
(***************************************************************************)
(* kusatsu-backend: the chunked-upload engine.                             *)
(*                                                                         *)
(* State: the upload_sessions and files tables, the chunk tree             *)
(* (chunks/<upload_id>/chunk_NNNNNN), the final-file tree, the clock, and  *)
(* one record per request-handling task holding the position of the        *)
(* handler it runs and that handler's local variables.  Every .await of a  *)
(* handler on the database or the filesystem is one step, so that the      *)
(* handlers of different tasks interleave exactly where the tokio runtime  *)
(* can interleave them.                                                    *)
(*                                                                         *)
(* Time is counted in hours.  Sizes are counted in bytes, with the         *)
(* configured maxima scaled down (MaxFileSize, ChunkSizeCap).              *)
(***************************************************************************)
EXTENDS Integers, Sequences, FiniteSets, TLC

\* ------------------------------------------------------------------ bounds
\* Number of concurrent request-handling tasks.
NumWorkers == 2
\* Number of upload ids (Uuid::new_v4 values) the model hands out.
MaxSessions == 1
\* Number of file ids the model hands out.
MaxFiles == 1
\* The clock runs from 0 to MaxTime hours.
MaxTime == 2
\* config.max_file_size, served, scaled to bytes of the model.
MaxFileSize == 2
\* The 50 MiB cap on chunk_size (handlers.rs:195), scaled.
ChunkSizeCap == 2
\* Bytes are 0..MaxByte.
MaxByte == 1
\* Plaintexts given to encrypt are of at most MaxPlain bytes.
MaxPlain == 2
\* The largest octet.
MaxOctet == 6
\* i32::MAX, scaled: the largest value of an i32 of the model.
I32Max == 3
\* A file id (a Uuid) is IdDigits hexadecimal digits, each in 0..MaxHex.
IdDigits == 3
MaxHex == 1
\* Files in the final-file tree when tasks share it.
MaxStored == 2

\* ------------------------------------------------------- program constants
\* DEFAULT_CHUNK_SIZE (5 MiB in the source), in the model's scaled unit.
DEFAULT_CHUNK_SIZE == 1
\* chrono::Duration::hours(1): the session TTL.
SessionTTL == 1
\* The length of an AES-GCM nonce (12 bytes in the source), scaled.
NonceLen == 2
\* The length of an AES-256 key (32 bytes in the source), scaled.
KeyLen == 1
\* Option::None of an Option<i32> request or row field.
None == -1

Workers == 1..NumWorkers
\* The task that runs the chunk store's own sweep, which no request starts.
Janitor == NumWorkers + 1
Tasks == Workers \cup {Janitor}
\* Upload ids requests can name and the chunk store can be asked about:
\* those handed out, and one more, which no session has unless a scenario
\* hands it out as well.
UploadIds == 1..(MaxSessions + 1)
SessionIds == UploadIds
\* File ids, likewise.
FileIds == 1..(MaxFiles + 1)
Times == 0..MaxTime
Bytes == 0..MaxByte
\* Chunk numbers a session of the model can have.
ChunkIdx == 0..(MaxFileSize - 1)
\* Request payloads: every byte string up to one byte longer than the cap.
Payloads == UNION {[1..n -> Bytes] : n \in 0..(ChunkSizeCap + 1)}
\* The file contents a caller hands to store_file: each single byte.
FileData == {<<b>> : b \in Bytes}
\* The chunks a caller hands to store_chunk: each single byte, and one
\* string of every length up to the cap.
Pieces == {<<b>> : b \in Bytes} \cup {[i \in 1..n |-> i % 2] : n \in 1..ChunkSizeCap}
\* The content of a chunk path that does not exist, and a multipart body
\* without a "chunk" field.
NoChunk == <<-1>>
\* The content of a final-file path that does not exist.
NoBlob == <<-1>>

\* ---------------------------------------------------------------- file paths
\* Characters of path components besides the hexadecimal digits 0..15:
\* '-', the extension ".enc", and the name of the storage directory.
Hyphen == 16
DotEnc == 17
StorageDir == 18

\* The octets of file names, MIME types and file contents are
\* 0..MaxOctet.  Those of them that stand for characters, in the order of
\* their ASCII codes: carriage return, space, '"', '\\', 'a'.
CarriageReturn == 2
Space == 3
Quote == 4
Backslash == 5
LetterA == 6

\* Uuid values.
Uuids == [1..IdDigits -> 0..MaxHex]

\* The id the k-th call of Uuid::new_v4 returns: ids are taken as fresh,
\* the k-th being k-1 written in IdDigits digits.
RECURSIVE Power(_, _)
Power(b, e) == IF e = 0 THEN 1 ELSE b * Power(b, e - 1)

NewV4(k) ==
    [i \in 1..IdDigits |-> ((k - 1) \div Power(MaxHex + 1, IdDigits - i))
                              % (MaxHex + 1)]

\* The id's text without the hyphen of the canonical form.
HyphenatedNot(file_id) == file_id

\* Uuid's Display / to_string: the canonical hyphenated text, here with one
\* group of two digits, a hyphen, and the remaining digits (8-4-4-4-12 in
\* the program).
Hyphenated(file_id) ==
    SubSeq(file_id, 1, 2) \o <<Hyphen>> \o SubSeq(file_id, 3, IdDigits)

NotHyphen(c) == c # Hyphen

\* str::replace('-', "").
WithoutHyphens(text) == SelectSeq(text, NotHyphen)

\* A path is the sequence of its components.  FileStorage::new: the
\* storage root.
Root == << <<StorageDir>> >>

\* PathBuf::join with a relative path.
Join(base, relative) == base \o relative

\* Path::parent.
Parent(path) == SubSeq(path, 1, Len(path) - 1)

\* Path::starts_with.
StartsWith(path, base) ==
    /\ Len(base) <= Len(path)
    /\ SubSeq(path, 1, Len(base)) = base

\* The path as it is, its prefix not removed.
KeepPrefix(path, base) == path

\* Path::strip_prefix, for a path that starts with base.
StripPrefix(path, base) == SubSeq(path, Len(base) + 1, Len(path))

\* FileStorage::generate_file_path; a level is one character of the id
\* here, two in the program.
GenerateFilePath(file_id) ==
    LET file_id_str == WithoutHyphens(Hyphenated(file_id))
        level1 == SubSeq(file_id_str, 1, 1)
        level2 == SubSeq(file_id_str, 2, 2)
        filename == Hyphenated(file_id) \o <<DotEnc>>
    IN Join(Join(Join(Root, <<level1>>), <<level2>>), <<filename>>)

\* The paths files are stored at, and the relative paths store_file returns
\* for them.
FilePaths == {GenerateFilePath(id) : id \in Uuids}
RelativePaths == {StripPrefix(path, Root) : path \in FilePaths}

\* The directories create_dir_all(file_path.parent()) makes sure of: the
\* ancestors of the path below the root.
DirsFor(path) == {SubSeq(path, 1, k) : k \in (Len(Root) + 1)..(Len(path) - 1)}
\* The None of an Option<String> and of a multipart field that is not there.
NoText == <<None>>
\* The creation time of a directory that does not exist.
NoDir == -1

\* -------------------------------------------------------------------- rows
\* upload_session::Model; exists = FALSE is "no row with this upload_id".
NoSession ==
    [exists |-> FALSE, total_size |-> 0, total_chunks |-> 0, chunk_size |-> 0,
     uploaded_chunks |-> 0, expires_in_hours |-> None, max_downloads |-> None,
     created_at |-> 0, expires_at |-> 0, filename |-> <<>>,
     mime_type |-> NoText]

\* file::Model; exists = FALSE is "no row with this file_id".
NoFile ==
    [exists |-> FALSE, original_size |-> 0, encrypted_size |-> 0,
     file_path |-> <<>>, nonce |-> <<>>, filename_nonce |-> <<>>,
     expires_at |-> None, download_count |-> 0, max_downloads |-> None,
     encrypted_filename |-> <<>>, mime_type |-> NoText]

\* A handler's response, or what a call of the chunk store or the file store
\* returns (data: the bytes of an Ok(Vec<u8>)).  status is "none" (no response yet), "ok" or "err";
\* msg is the error text, or the line the handler logs at warn level;
\* chunk_number is the one of the response body or, for an error of
\* upload_chunk, the one of the request path the error answers; expected and
\* got are the two lengths the "Invalid chunk size" text carries.
NoRes ==
    [status |-> "none", op |-> "none", sid |-> 0, msg |-> "",
     chunk_number |-> None, expected |-> None, got |-> None,
     uploaded_chunks |-> 0, total_chunks |-> 0,
     progress |-> <<0, 1>>, chunk_numbers |-> <<>>, is_complete |-> FALSE,
     is_expired |-> FALSE, file_id |-> 0, data |-> <<>>,
     uuid |-> <<>>, path |-> <<>>, key |-> <<>>, nonce |-> <<>>,
     filename |-> <<>>, code |-> 0, items_cleaned |-> 0]

\* A task that runs no handler.
IdleWorker ==
    [pc |-> "idle", sid |-> 0, idx |-> 0, snap |-> NoSession, buf |-> <<>>,
     expires_at |-> None, fid |-> 0, clean |-> FALSE, file_path |-> <<>>,
     relative_path |-> <<>>, uuid |-> <<>>, file |-> NoFile, key |-> <<>>,
     filename |-> <<>>, rows |-> {}, kept |-> {},
     enc |-> [ciphertext |-> <<>>, nonce |-> <<>>]]

\* No response was sent by the last step.
NoResp == [w |-> 0, res |-> NoRes]

VARIABLES
    now,        \* chrono::Utc::now(), in hours
    sessions,   \* upload_sessions table: upload_id -> row
    nextSid,    \* the next fresh upload id
    chunkDir,   \* chunks/<upload_id>: creation time, or NoDir
    chunks,     \* chunks/<upload_id>/chunk_<n>: content, or NoChunk
    files,      \* files table: file_id -> row
    nextFid,    \* the next fresh file id
    blobs,      \* final-file tree: file_path -> content, or NoBlob
    wk,         \* request-handling tasks
    resp,       \* the response the last step sent, and the task that sent it
    nacks,      \* history: per session, upload_chunk responses that counted a chunk
    acked,      \* history: per session, the chunk numbers of those responses
    completed,  \* history: sessions whose complete returned with cleanup done
    max_file_size,  \* config.max_file_size
    served,     \* history: per file, download responses that carried its bytes
    dirs,       \* final-file tree: the directories under the storage root
    strays      \* chunks/<upload_id>: entries that store_chunk did not write

vars == <<now, sessions, nextSid, chunkDir, chunks, files, nextFid, blobs, wk,
          resp, nacks, acked, completed, max_file_size, served, dirs, strays>>

\* ------------------------------------------------------------ entity logic
\* upload_session::Model::is_expired at clock t.
SessionIsExpired(s, t) == t > s.expires_at

\* is_complete with its comparison made strict.
SessionIsCompleteStrict(s) == s.uploaded_chunks > s.total_chunks

\* upload_session::Model::is_complete.
SessionIsComplete(s) == s.uploaded_chunks >= s.total_chunks

\* upload_session::Model::progress: uploaded/total as the exact fraction.
Progress(s) ==
    IF s.total_chunks = 0 THEN <<0, 1>>
    ELSE <<s.uploaded_chunks, s.total_chunks>>

\* A float's cast to i32 (as i32): values above i32::MAX saturate.
AsI32(x) == IF x > I32Max THEN I32Max ELSE x

\* ((file_size as f64) / (chunk_size as f64)).ceil() as i32; the f64
\* division and ceil are taken as exact (they are for sizes below 2^53).
TotalChunks(file_size, chunk_size) ==
    AsI32(IF file_size % chunk_size = 0 THEN file_size \div chunk_size
          ELSE (file_size \div chunk_size) + 1)

\* The range check with its upper comparison loosened to >.
ValidChunkNumberInclusive(chunk_number, total_chunks) ==
    ~(chunk_number < 0 \/ chunk_number > total_chunks)

\* upload_chunk's range check on chunk_number.
ValidChunkNumber(chunk_number, total_chunks) ==
    ~(chunk_number < 0 \/ chunk_number >= total_chunks)

\* expected_size without the branch for the last chunk.
ExpectedSizeFull(s, chunk_number) == s.chunk_size

\* upload_chunk's expected_size.
ExpectedSize(s, chunk_number) ==
    IF chunk_number = s.total_chunks - 1
    THEN s.total_size - chunk_number * s.chunk_size
    ELSE s.chunk_size


\* ----------------------------------------------------------------- helpers
\* An error response of handler op on session sid.
ErrRes(op, sid, msg) ==
    [NoRes EXCEPT !.status = "err", !.op = op, !.sid = sid, !.msg = msg]

\* The task ends its handler with response r.
Finish(w, r) ==
    /\ wk' = [wk EXCEPT ![w] = IdleWorker]
    /\ resp' = [w |-> w, res |-> r]

\* Task w is at label pc of its handler and no response is on its way out.
At(w, label) == resp = NoResp /\ wk[w].pc = label

\* The task goes on with its handler, its local variables now being rec.
Step(w, rec) ==
    /\ wk' = [wk EXCEPT ![w] = rec]
    /\ resp' = NoResp

\* chunk_exists looking for the chunk under a one-based name.
ChunkExistsOneBased(sid, chunk_number) ==
    /\ chunk_number + 1 \in ChunkIdx
    /\ chunks[sid][chunk_number + 1] # NoChunk

\* ChunkStorage::chunk_exists.
ChunkExists(sid, chunk_number) ==
    /\ chunk_number \in ChunkIdx
    /\ chunks[sid][chunk_number] # NoChunk

\* What is at a path of the final-file tree.
Content(path) == IF path \in FilePaths THEN blobs[path] ELSE NoBlob

\* A session's chunk directory with no chunk in it.
EmptyChunks == [i \in ChunkIdx |-> NoChunk]

\* remove_dir_all reaching into every upload directory.
WithoutAnyUpload(tree, upload_id, empty) == [u \in DOMAIN tree |-> empty]

\* remove_dir_all of chunks/<upload_id>: that directory's part of the tree
\* (its chunks, or its other entries) is gone, every other one is as before.
WithoutUpload(tree, upload_id, empty) == [tree EXCEPT ![upload_id] = empty]

\* The server as run_server starts it with config.max_file_size = max_size.
Started(max_size) ==
    /\ now = 0
    /\ sessions = [s \in SessionIds |-> NoSession]
    /\ nextSid = 1
    /\ chunkDir = [u \in UploadIds |-> NoDir]
    /\ chunks = [u \in UploadIds |-> EmptyChunks]
    /\ files = [f \in FileIds |-> NoFile]
    /\ nextFid = 1
    /\ blobs = [path \in FilePaths |-> NoBlob]
    /\ wk = [w \in Tasks |-> IdleWorker]
    /\ resp = NoResp
    /\ nacks = [s \in SessionIds |-> 0]
    /\ acked = [s \in SessionIds |-> {}]
    /\ completed = {}
    /\ max_file_size = max_size
    /\ served = [f \in FileIds |-> 0]
    /\ dirs = {}
    /\ strays = [u \in UploadIds |-> {}]

\* The configuration of the model's server: files of at most MaxFileSize.
Init == Started(MaxFileSize)

\* Any configuration, up to maxima that an i32 cannot hold.
InitAnyConfig == \E max_size \in 1..(I32Max + 2) : Started(max_size)

\* The clock advances by one hour, up to hour last.
TickUntil(last) ==
    /\ resp = NoResp
    /\ now < last
    /\ now' = now + 1
    /\ resp' = NoResp
    /\ UNCHANGED <<sessions, nextSid, chunkDir, chunks, files, nextFid, blobs,
                   wk, nacks, acked, completed>>
    /\ UNCHANGED <<max_file_size, served, dirs, strays>>

\* The clock advances by one hour.
Tick == TickUntil(MaxTime)

\* The response of the last step leaves the server.  Responses are kept for
\* one step only, and no handler reads them.
Deliver ==
    /\ resp # NoResp
    /\ resp' = NoResp
    /\ UNCHANGED <<now, sessions, nextSid, chunkDir, chunks, files, nextFid,
                   blobs, wk, nacks, acked, completed>>
    /\ UNCHANGED <<max_file_size, served, dirs, strays>>

\* ------------------------------------------------------ start_chunked_upload
\* The row create_upload_session inserts: ActiveModelBehavior::new sets
\* created_at and expires_at, the table default sets uploaded_chunks.
NewSession(file_size, chunk_size, hours, max_dl, filename, mime_type) ==
    [exists |-> TRUE, total_size |-> file_size,
     total_chunks |-> TotalChunks(file_size, chunk_size),
     chunk_size |-> chunk_size, uploaded_chunks |-> 0,
     expires_in_hours |-> hours, max_downloads |-> max_dl,
     created_at |-> now, expires_at |-> now + SessionTTL,
     filename |-> filename, mime_type |-> mime_type]

\* The validation with a file size of 0 let through.
StartRejectionZeroSize(file_size, chunk_size) ==
    IF file_size > max_file_size THEN "File too large"
    ELSE IF file_size < 0 THEN "Invalid file size"
    ELSE IF chunk_size <= 0 \/ chunk_size > ChunkSizeCap THEN "Invalid chunk size"
    ELSE ""

\* start_chunked_upload's validation of the request: "" when it passes.
StartRejection(file_size, chunk_size) ==
    IF file_size > max_file_size THEN "File too large"
    ELSE IF file_size <= 0 THEN "Invalid file size"
    ELSE IF chunk_size <= 0 \/ chunk_size > ChunkSizeCap THEN "Invalid chunk size"
    ELSE ""

\* The file name of the requests that do not vary it: "a".
PlainName == <<LetterA>>

\* start_chunked_upload: validation, then the insert, in one response, for
\* requests whose expires_in_hours, max_downloads, filename and mime_type
\* are taken from the sets given.
StartSession(w, Ids, Hours, Limits, Names, Mimes) ==
    /\ At(w, "idle")
    /\ \E file_size \in -1..(max_file_size + 1),
          req_chunk_size \in {None, -2} \cup (0..(ChunkSizeCap + 1)),
          hours \in Hours, max_dl \in Limits, filename \in Names,
          mime_type \in Mimes :
         LET chunk_size == IF req_chunk_size = None THEN DEFAULT_CHUNK_SIZE
                           ELSE req_chunk_size
         IN
         IF StartRejection(file_size, chunk_size) # ""
         THEN /\ Finish(w, ErrRes("start", 0, StartRejection(file_size, chunk_size)))
              /\ UNCHANGED <<sessions, nextSid>>
         ELSE \/ /\ Finish(w, ErrRes("start", 0, "Database error"))
                 /\ UNCHANGED <<sessions, nextSid>>
              \/ /\ nextSid \in Ids
                 /\ sessions' = [sessions EXCEPT ![nextSid] =
                                   NewSession(file_size, chunk_size, hours,
                                              max_dl, filename, mime_type)]
                 /\ nextSid' = nextSid + 1
                 /\ Finish(w, [NoRes EXCEPT !.status = "ok", !.op = "start",
                                 !.sid = nextSid,
                                 !.total_chunks = TotalChunks(file_size, chunk_size)])
    /\ UNCHANGED <<now, chunkDir, chunks, files, nextFid, blobs, nacks, acked,
                   completed>>
    /\ UNCHANGED <<max_file_size, served, dirs, strays>>

\* start_chunked_upload while upload ids are left of the MaxSessions the
\* model hands out.
StartUpload(w, Hours, Limits, Names, Mimes) ==
    StartSession(w, 1..MaxSessions, Hours, Limits, Names, Mimes)

\* start_chunked_upload for requests that name the file "a" and leave
\* expires_in_hours, max_downloads and mime_type unset.
StartChunkedUpload(w) ==
    StartUpload(w, {None}, {None}, {PlainName}, {NoText})

\* -------------------------------------------------------------- upload_chunk
\* upload_chunk's response: progress as of session row s.
ChunkRes(sid, chunk_number, s) ==
    [NoRes EXCEPT !.status = "ok", !.op = "chunk", !.sid = sid,
                  !.chunk_number = chunk_number,
                  !.uploaded_chunks = s.uploaded_chunks,
                  !.total_chunks = s.total_chunks,
                  !.progress = Progress(s)]

\* An error response of upload_chunk to the request for chunk_number.
ChunkErr(sid, chunk_number, msg) ==
    [ErrRes("chunk", sid, msg) EXCEPT !.chunk_number = chunk_number]

\* upload_chunk's checks on the session row it read, for this chunk number
\* at clock t: "" when they pass.
ChunkRejection(s, chunk_number, t) ==
    IF ~s.exists THEN "Upload session not found"
    ELSE IF SessionIsExpired(s, t) THEN "Upload session has expired"
    ELSE IF SessionIsComplete(s) THEN "Upload is already complete"
    ELSE IF ~ValidChunkNumber(chunk_number, s.total_chunks) THEN "Invalid chunk number"
    ELSE ""

\* upload_chunk, first await: get_upload_session_by_id, then the checks on
\* the row it read.
UcBegin(w) ==
    /\ At(w, "idle")
    /\ \E sid \in SessionIds, chunk_number \in -1..MaxFileSize :
         LET s == sessions[sid] IN
         \/ Finish(w, ChunkErr(sid, chunk_number, "Database error"))
         \/ IF ChunkRejection(s, chunk_number, now) # ""
            THEN Finish(w, ChunkErr(sid, chunk_number,
                                    ChunkRejection(s, chunk_number, now)))
            ELSE Step(w, [IdleWorker EXCEPT !.pc = "uc_exists", !.sid = sid,
                                            !.idx = chunk_number, !.snap = s])
    /\ UNCHANGED <<now, sessions, nextSid, chunkDir, chunks, files, nextFid,
                   blobs, nacks, acked, completed>>
    /\ UNCHANGED <<max_file_size, served, dirs, strays>>

\* upload_chunk, second await: chunk_exists; an existing chunk is logged as
\* skipped and answered with the progress of the row read at the start.
UcExists(w) ==
    /\ At(w, "uc_exists")
    /\ IF ChunkExists(wk[w].sid, wk[w].idx)
       THEN Finish(w, [ChunkRes(wk[w].sid, wk[w].idx, wk[w].snap)
                         EXCEPT !.msg = "already exists, skipping"])
       ELSE Step(w, [wk[w] EXCEPT !.pc = "uc_store"])
    /\ UNCHANGED <<now, sessions, nextSid, chunkDir, chunks, files, nextFid,
                   blobs, nacks, acked, completed>>
    /\ UNCHANGED <<max_file_size, served, dirs, strays>>

\* upload_chunk's check of the multipart body: "" when it passes.
BodyRejection(s, chunk_number, chunk_data) ==
    IF chunk_data = NoChunk THEN "Missing chunk data"
    ELSE IF Len(chunk_data) # ExpectedSize(s, chunk_number) THEN "Invalid chunk size"
    ELSE ""

\* upload_chunk: the multipart body, the check of its length, then
\* store_chunk (create_dir_all, then write, either of which may fail).
UcStore(w) ==
    /\ At(w, "uc_store")
    /\ LET sid == wk[w].sid
           n == wk[w].idx
       IN
       \E chunk_data \in Payloads \cup {NoChunk} :
         IF BodyRejection(wk[w].snap, n, chunk_data) = "Missing chunk data"
         THEN /\ Finish(w, ChunkErr(sid, n, "Missing chunk data"))
              /\ UNCHANGED <<chunkDir, chunks>>
         ELSE IF BodyRejection(wk[w].snap, n, chunk_data) # ""
         THEN /\ Finish(w, [ChunkErr(sid, n,
                                     BodyRejection(wk[w].snap, n, chunk_data))
                             EXCEPT !.expected = ExpectedSize(wk[w].snap, n),
                                    !.got = Len(chunk_data)])
              /\ UNCHANGED <<chunkDir, chunks>>
         ELSE \/ /\ Finish(w, ChunkErr(sid, n, "Failed to create upload directory"))
                 /\ UNCHANGED <<chunkDir, chunks>>
              \/ /\ chunkDir' = [chunkDir EXCEPT ![sid] =
                                   IF @ = NoDir THEN now ELSE @]
                 /\ \/ /\ Finish(w, ChunkErr(sid, n, "Failed to write chunk"))
                       /\ UNCHANGED chunks
                    \/ /\ chunks' = [chunks EXCEPT ![sid][n] = chunk_data]
                       /\ Step(w, [wk[w] EXCEPT !.pc = "uc_inc_find"])
    /\ UNCHANGED <<now, sessions, nextSid, files, nextFid, blobs, nacks, acked,
                   completed>>
    /\ UNCHANGED <<max_file_size, served, dirs, strays>>

\* increment_uploaded_chunks, first await: the SELECT of the row.
UcIncFind(w) ==
    /\ At(w, "uc_inc_find")
    /\ LET s == sessions[wk[w].sid] IN
       \/ Finish(w, ChunkErr(wk[w].sid, wk[w].idx, "Database error"))
       \/ IF ~s.exists
          THEN Finish(w, ChunkErr(wk[w].sid, wk[w].idx,
                                  "Upload session not found"))
          ELSE Step(w, [wk[w] EXCEPT !.pc = "uc_inc_update", !.snap = s])
    /\ UNCHANGED <<now, sessions, nextSid, chunkDir, chunks, files, nextFid,
                   blobs, nacks, acked, completed>>
    /\ UNCHANGED <<max_file_size, served, dirs, strays>>

\* The value increment_uploaded_chunks writes: the value it read, plus one.
IncrementedCount(read_row) == read_row.uploaded_chunks + 1

\* increment_uploaded_chunks, second await: UPDATE ... SET uploaded_chunks =
\* <value read + 1> WHERE id = <row>, answered with the row as updated.
UcIncUpdate(w) ==
    /\ At(w, "uc_inc_update")
    /\ LET sid == wk[w].sid
           s == sessions[sid]
           updated == [s EXCEPT !.uploaded_chunks = IncrementedCount(wk[w].snap)]
       IN
       \/ /\ Finish(w, ChunkErr(sid, wk[w].idx, "Database error"))
          /\ UNCHANGED <<sessions, nacks, acked>>
       \/ /\ s.exists
          /\ sessions' = [sessions EXCEPT ![sid] = updated]
          /\ nacks' = [nacks EXCEPT ![sid] = @ + 1]
          /\ acked' = [acked EXCEPT ![sid] = @ \cup {wk[w].idx}]
          /\ Finish(w, ChunkRes(sid, wk[w].idx, updated))
    /\ UNCHANGED <<now, nextSid, chunkDir, chunks, files, nextFid, blobs,
                   completed>>
    /\ UNCHANGED <<max_file_size, served, dirs, strays>>

\* The client gives up on an upload_chunk request (a timeout, a closed
\* connection): the handler's future is dropped at the await it is at.
UcAbandon(w) ==
    /\ resp = NoResp
    /\ wk[w].pc \in {"uc_exists", "uc_store", "uc_inc_find", "uc_inc_update"}
    /\ Finish(w, ChunkErr(wk[w].sid, wk[w].idx, "abandoned"))
    /\ UNCHANGED <<now, sessions, nextSid, chunkDir, chunks, files, nextFid,
                   blobs, nacks, acked, completed>>
    /\ UNCHANGED <<max_file_size, served, dirs, strays>>

\* --------------------------------------------------- complete_chunked_upload
\* The checks of complete_chunked_upload without the one on expiry.
CompleteRejectionNoExpiry(s, t) ==
    IF ~s.exists THEN "Upload session not found"
    ELSE IF ~SessionIsComplete(s) THEN "Upload incomplete"
    ELSE ""

\* complete_chunked_upload's checks on the session row it read at clock t:
\* "" when they pass.
CompleteRejection(s, t) ==
    IF ~s.exists THEN "Upload session not found"
    ELSE IF SessionIsExpired(s, t) THEN "Upload session has expired"
    ELSE IF ~SessionIsComplete(s) THEN "Upload incomplete"
    ELSE ""

\* complete_chunked_upload, first await: get_upload_session_by_id, then the
\* checks on the row it read.
CcBegin(w) ==
    /\ At(w, "idle")
    /\ \E sid \in SessionIds :
         LET s == sessions[sid] IN
         \/ Finish(w, ErrRes("complete", sid, "Database error"))
         \/ IF CompleteRejection(s, now) # ""
            THEN Finish(w, ErrRes("complete", sid, CompleteRejection(s, now)))
            ELSE Step(w, [IdleWorker EXCEPT !.pc = "cc_assemble", !.sid = sid,
                                            !.idx = 0, !.snap = s])
    /\ UNCHANGED <<now, sessions, nextSid, chunkDir, chunks, files, nextFid,
                   blobs, nacks, acked, completed>>
    /\ UNCHANGED <<max_file_size, served, dirs, strays>>

\* The buffer holding chunk_data only.
ExtendedReplacing(assembled_data, chunk_data) == chunk_data

\* The buffer with chunk_data put in front of what was assembled so far.
ExtendedInFront(assembled_data, chunk_data) == chunk_data \o assembled_data

\* assemble_chunks' buffer after it read chunk_data.
Extended(assembled_data, chunk_data) == assembled_data \o chunk_data

\* assemble_chunks, one turn of its loop over 0..total_chunks: the chunk
\* must exist, is read and is appended to the buffer.
CcAssemble(w) ==
    /\ At(w, "cc_assemble")
    /\ LET sid == wk[w].sid
           n == wk[w].idx
       IN
       IF ~ChunkExists(sid, n)
       THEN Finish(w, [ErrRes("complete", sid, "Missing chunk")
                         EXCEPT !.chunk_number = n])
       ELSE \/ Finish(w, ErrRes("complete", sid, "Failed to read chunk"))
            \/ Step(w, [wk[w] EXCEPT
                          !.buf = Extended(@, chunks[sid][n]),
                          !.idx = n + 1,
                          !.pc = IF n + 1 < wk[w].snap.total_chunks
                                 THEN "cc_assemble" ELSE "cc_store"])
    /\ UNCHANGED <<now, sessions, nextSid, chunkDir, chunks, files, nextFid,
                   blobs, nacks, acked, completed>>
    /\ UNCHANGED <<max_file_size, served, dirs, strays>>

\* complete_chunked_upload's check of the assembled length.
AssembledSizeOk(assembled_data, s) == Len(assembled_data) = s.total_size

\* complete_chunked_upload's expires_at for a session with this hint.
FileExpiresAt(hours) == IF hours = None THEN None ELSE now + hours

\* complete_chunked_upload after assembly: the length check, the expiry
\* time, a fresh file id, then store_file (create_dir_all, then write,
\* either of which may fail; a failed call leaves alone what it failed on).
CcStoreAs(w, Ids) ==
    /\ At(w, "cc_store")
    /\ LET file_path == GenerateFilePath(NewV4(nextFid)) IN
       IF ~AssembledSizeOk(wk[w].buf, wk[w].snap)
       THEN /\ Finish(w, ErrRes("complete", wk[w].sid,
                                "Assembled file size mismatch"))
            /\ UNCHANGED <<nextFid, blobs, dirs>>
       ELSE \/ /\ Finish(w, ErrRes("complete", wk[w].sid,
                                    "Failed to create directory"))
               /\ UNCHANGED <<nextFid, blobs, dirs>>
            \/ /\ dirs' = dirs \cup DirsFor(file_path)
               /\ \/ /\ Finish(w, ErrRes("complete", wk[w].sid,
                                          "Failed to write file"))
                     /\ UNCHANGED <<nextFid, blobs>>
                  \/ /\ nextFid \in Ids
                     /\ nextFid' = nextFid + 1
                     /\ blobs' = [blobs EXCEPT ![file_path] = wk[w].buf]
                     /\ Step(w, [wk[w] EXCEPT
                                   !.pc = "cc_record", !.fid = nextFid,
                                   !.file_path = StripPrefix(file_path, Root),
                                   !.expires_at =
                                       FileExpiresAt(wk[w].snap.expires_in_hours)])
    /\ UNCHANGED <<now, sessions, nextSid, chunkDir, chunks, files, nacks,
                   acked, completed>>
    /\ UNCHANGED <<max_file_size, served, strays>>

\* The same while file ids are left of the MaxFiles the model hands out.
CcStore(w) == CcStoreAs(w, 1..MaxFiles)

\* The row create_unencrypted_file_record inserts for session row s.
UnencryptedFileRecord(s, file_path, expires_at) ==
    [exists |-> TRUE, original_size |-> s.total_size,
     encrypted_size |-> s.total_size, file_path |-> file_path,
     nonce |-> <<>>, filename_nonce |-> <<>>,
     expires_at |-> expires_at,
     download_count |-> 0, max_downloads |-> s.max_downloads,
     encrypted_filename |-> s.filename, mime_type |-> s.mime_type]

\* complete_chunked_upload: create_unencrypted_file_record.
CcRecord(w) ==
    /\ At(w, "cc_record")
    /\ \/ /\ Finish(w, ErrRes("complete", wk[w].sid, "Database error"))
          /\ UNCHANGED files
       \/ /\ files' = [files EXCEPT ![wk[w].fid] =
                         UnencryptedFileRecord(wk[w].snap, wk[w].file_path,
                                               wk[w].expires_at)]
          /\ Step(w, [wk[w] EXCEPT !.pc = "cc_cleanup"])
    /\ UNCHANGED <<now, sessions, nextSid, chunkDir, chunks, nextFid, blobs,
                   nacks, acked, completed>>
    /\ UNCHANGED <<max_file_size, served, dirs, strays>>

\* cleanup_upload in complete_chunked_upload, were its failure returned to
\* the caller with `?`.
CcCleanupAborting(w) ==
    /\ At(w, "cc_cleanup")
    /\ LET sid == wk[w].sid IN
       IF chunkDir[sid] = NoDir
       THEN /\ Step(w, [wk[w] EXCEPT !.pc = "cc_delete", !.clean = TRUE])
            /\ UNCHANGED <<chunkDir, chunks, strays>>
       ELSE \/ /\ Finish(w, ErrRes("complete", sid,
                                    "Failed to cleanup upload chunks"))
               /\ UNCHANGED <<chunkDir, chunks, strays>>
            \/ /\ chunkDir' = [chunkDir EXCEPT ![sid] = NoDir]
               /\ chunks' = WithoutUpload(chunks, sid, EmptyChunks)
               /\ strays' = WithoutUpload(strays, sid, {})
               /\ Step(w, [wk[w] EXCEPT !.pc = "cc_delete", !.clean = TRUE])
    /\ UNCHANGED <<now, sessions, nextSid, files, nextFid, blobs, nacks, acked,
                   completed>>
    /\ UNCHANGED <<max_file_size, served, dirs>>

\* complete_chunked_upload: cleanup_upload (remove_dir_all of the upload
\* directory when it exists); a failure is logged and the handler goes on.
CcCleanup(w) ==
    /\ At(w, "cc_cleanup")
    /\ LET sid == wk[w].sid IN
       IF chunkDir[sid] = NoDir
       THEN /\ Step(w, [wk[w] EXCEPT !.pc = "cc_delete", !.clean = TRUE])
            /\ UNCHANGED <<chunkDir, chunks, strays>>
       ELSE \/ /\ Step(w, [wk[w] EXCEPT !.pc = "cc_delete", !.clean = FALSE])
               /\ UNCHANGED <<chunkDir, chunks, strays>>
            \/ /\ chunkDir' = [chunkDir EXCEPT ![sid] = NoDir]
               /\ chunks' = WithoutUpload(chunks, sid, EmptyChunks)
               /\ strays' = WithoutUpload(strays, sid, {})
               /\ Step(w, [wk[w] EXCEPT !.pc = "cc_delete", !.clean = TRUE])
    /\ UNCHANGED <<now, sessions, nextSid, files, nextFid, blobs, nacks, acked,
                   completed>>
    /\ UNCHANGED <<max_file_size, served, dirs>>

\* complete_chunked_upload: delete_upload_session; a failure is logged and
\* the handler answers with the new file id either way.
CcDelete(w) ==
    /\ At(w, "cc_delete")
    /\ LET sid == wk[w].sid IN
       /\ \/ /\ sessions' = [sessions EXCEPT ![sid] = NoSession]
             /\ completed' = IF wk[w].clean THEN completed \cup {sid}
                             ELSE completed
          \/ UNCHANGED <<sessions, completed>>
       /\ Finish(w, [NoRes EXCEPT !.status = "ok", !.op = "complete",
                       !.sid = sid, !.file_id = wk[w].fid])
    /\ UNCHANGED <<now, nextSid, chunkDir, chunks, files, nextFid, blobs,
                   nacks, acked>>
    /\ UNCHANGED <<max_file_size, served, dirs, strays>>

\* ---------------------------------------------------------- get_upload_status
\* format!("chunk_{:06}", n): the decimal digits of n, zero-padded to six.
RECURSIVE Digits(_)
Digits(n) == IF n < 10 THEN <<n>> ELSE Digits(n \div 10) \o <<n % 10>>

ChunkName(n) ==
    LET d == Digits(n) IN
    [i \in 1..(6 - Len(d)) |-> 0] \o d

\* A character of a file name that is no decimal digit (digits are 0..9).
Letter == 10

\* The name of a directory entry: whether it starts with "chunk_", and the
\* characters after that prefix (all of them if it does not start with it).
\* get_chunk_path's name of chunk n.
ChunkFile(n) == [prefix |-> TRUE, text |-> ChunkName(n)]

\* Entries that something other than store_chunk may leave in an upload
\* directory: "000000", "chunk_x" and "chunk_1".
ForeignNames ==
    {[prefix |-> FALSE, text |-> ChunkName(0)],
     [prefix |-> TRUE, text |-> <<Letter>>],
     [prefix |-> TRUE, text |-> <<1>>]}

\* The decimal value of the digits d, read without their last digit.
RECURSIVE ParseDigitsShort(_)
ParseDigitsShort(d) ==
    IF Len(d) <= 1 THEN 0
    ELSE 10 * ParseDigitsShort(SubSeq(d, 1, Len(d) - 1)) + d[Len(d) - 1]

\* str::parse::<i32> of the digits after the "chunk_" prefix.
RECURSIVE ParseDigits(_)
ParseDigits(d) ==
    IF d = <<>> THEN 0
    ELSE 10 * ParseDigits(SubSeq(d, 1, Len(d) - 1)) + d[Len(d)]

\* get_uploaded_chunks takes an entry for a chunk: strip_prefix("chunk_")
\* gives Some and the rest parses as an i32 (the names of the model have no
\* sign and at most six digits, so no parse overflows).
Recognized(name) ==
    /\ name.prefix
    /\ name.text # <<>>
    /\ \A i \in 1..Len(name.text) : name.text[i] \in 0..9

\* The numbers parsed from the entries names, one per entry, in ascending
\* order (Vec::push per entry, then Vec::sort).
RECURSIVE SortedNumbers(_)
SortedNumbers(names) ==
    IF names = {} THEN <<>>
    ELSE LET m == CHOOSE x \in names :
                    \A y \in names : ParseDigits(x.text) <= ParseDigits(y.text)
         IN <<ParseDigits(m.text)>> \o SortedNumbers(names \ {m})

\* read_dir of chunks/<upload_id>: the chunk files and the other entries.
Entries(sid) ==
    {ChunkFile(n) : n \in {i \in ChunkIdx : chunks[sid][i] # NoChunk}}
        \cup strays[sid]

\* ChunkStorage::get_uploaded_chunks: the chunk numbers parsed from the
\* names in the upload directory, sorted; empty without the directory.
GetUploadedChunks(sid) ==
    IF chunkDir[sid] = NoDir THEN <<>>
    ELSE SortedNumbers({e \in Entries(sid) : Recognized(e)})

\* get_upload_status, first await: get_upload_session_by_id.
StBegin(w) ==
    /\ At(w, "idle")
    /\ \E sid \in SessionIds :
         LET s == sessions[sid] IN
         \/ Finish(w, ErrRes("status", sid, "Database error"))
         \/ IF ~s.exists
            THEN Finish(w, ErrRes("status", sid, "Upload session not found"))
            ELSE Step(w, [IdleWorker EXCEPT !.pc = "st_list", !.sid = sid,
                                            !.snap = s])
    /\ UNCHANGED <<now, sessions, nextSid, chunkDir, chunks, files, nextFid,
                   blobs, nacks, acked, completed>>
    /\ UNCHANGED <<max_file_size, served, dirs, strays>>

\* get_upload_status, second await: get_uploaded_chunks, then the response
\* built from the row read at the start.
StList(w) ==
    /\ At(w, "st_list")
    /\ LET sid == wk[w].sid
           s == wk[w].snap
       IN
       \/ /\ chunkDir[sid] # NoDir
          /\ Finish(w, ErrRes("status", sid, "Failed to read upload directory"))
       \/ Finish(w, [NoRes EXCEPT
                       !.status = "ok", !.op = "status", !.sid = sid,
                       !.uploaded_chunks = s.uploaded_chunks,
                       !.total_chunks = s.total_chunks,
                       !.progress = Progress(s),
                       !.chunk_numbers = GetUploadedChunks(sid),
                       !.is_complete = SessionIsComplete(s),
                       !.is_expired = SessionIsExpired(s, now)])
    /\ UNCHANGED <<now, sessions, nextSid, chunkDir, chunks, files, nextFid,
                   blobs, nacks, acked, completed>>
    /\ UNCHANGED <<max_file_size, served, dirs, strays>>

\* ---------------------------------------------------------------- ChunkStorage
\* ChunkStorage::store_chunk called on its own: create_dir_all, then write,
\* either of which may fail.
StoreChunk(w) ==
    /\ At(w, "idle")
    /\ \E upload_id \in UploadIds, chunk_number \in ChunkIdx,
          chunk_data \in Pieces :
         \/ /\ Finish(w, ErrRes("store", upload_id,
                                 "Failed to create upload directory"))
            /\ UNCHANGED <<chunkDir, chunks>>
         \/ /\ chunkDir' = [chunkDir EXCEPT ![upload_id] =
                              IF @ = NoDir THEN now ELSE @]
            /\ \/ /\ Finish(w, ErrRes("store", upload_id, "Failed to write chunk"))
                  /\ UNCHANGED chunks
               \/ /\ chunks' = [chunks EXCEPT ![upload_id][chunk_number] =
                                   chunk_data]
                  /\ Finish(w, [NoRes EXCEPT !.status = "ok", !.op = "store",
                                  !.sid = upload_id,
                                  !.chunk_number = chunk_number])
    /\ UNCHANGED <<now, sessions, nextSid, files, nextFid, blobs, nacks, acked,
                   completed, max_file_size, served, dirs, strays>>

\* Something other than store_chunk leaves an entry in an upload directory.
ForeignEntry ==
    /\ resp = NoResp
    /\ \E upload_id \in UploadIds, name \in ForeignNames :
         /\ chunkDir[upload_id] # NoDir
         /\ name \notin strays[upload_id]
         /\ strays' = [strays EXCEPT ![upload_id] = @ \cup {name}]
    /\ resp' = NoResp
    /\ UNCHANGED <<now, sessions, nextSid, chunkDir, chunks, files, nextFid,
                   blobs, wk, nacks, acked, completed, max_file_size, served, dirs>>

\* ChunkStorage::assemble_chunks called on its own, up to its loop: with
\* total_chunks <= 0 the loop has no turn and the empty buffer is returned.
AsBegin(w) ==
    /\ At(w, "idle")
    /\ \E upload_id \in UploadIds, total_chunks \in 0..(MaxFileSize + 1) :
         IF total_chunks = 0
         THEN Finish(w, [NoRes EXCEPT !.status = "ok", !.op = "assemble",
                           !.sid = upload_id])
         ELSE Step(w, [IdleWorker EXCEPT
                         !.pc = "cc_assemble", !.sid = upload_id, !.idx = 0,
                         !.snap = [NoSession EXCEPT
                                     !.total_chunks = total_chunks]])
    /\ UNCHANGED <<now, sessions, nextSid, chunkDir, chunks, files, nextFid,
                   blobs, nacks, acked, completed, max_file_size, served, dirs, strays>>

\* assemble_chunks after the last turn of its loop: Ok(assembled_data).
AsReturn(w) ==
    /\ At(w, "cc_store")
    /\ Finish(w, [NoRes EXCEPT !.status = "ok", !.op = "assemble",
                     !.sid = wk[w].sid,
                     !.total_chunks = wk[w].snap.total_chunks,
                     !.data = wk[w].buf])
    /\ UNCHANGED <<now, sessions, nextSid, chunkDir, chunks, files, nextFid,
                   blobs, nacks, acked, completed, max_file_size, served, dirs, strays>>

\* ChunkStorage::get_uploaded_chunks called on its own; read_dir may fail
\* when the directory exists.
ListChunks(w) ==
    /\ At(w, "idle")
    /\ \E upload_id \in UploadIds :
         \/ /\ chunkDir[upload_id] # NoDir
            /\ Finish(w, ErrRes("list", upload_id,
                                 "Failed to read upload directory"))
         \/ Finish(w, [NoRes EXCEPT !.status = "ok", !.op = "list",
                          !.sid = upload_id,
                          !.chunk_numbers = GetUploadedChunks(upload_id)])
    /\ UNCHANGED <<now, sessions, nextSid, chunkDir, chunks, files, nextFid,
                   blobs, nacks, acked, completed, max_file_size, served, dirs, strays>>

\* ChunkStorage::cleanup_upload called on its own: Ok without the directory;
\* else remove_dir_all, which removes everything or fails having removed
\* some of the entries.
CleanupUpload(w) ==
    /\ At(w, "idle")
    /\ \E upload_id \in UploadIds :
         IF chunkDir[upload_id] = NoDir
         THEN /\ Finish(w, [NoRes EXCEPT !.status = "ok", !.op = "cleanup",
                               !.sid = upload_id])
              /\ UNCHANGED <<chunkDir, chunks, strays>>
         ELSE \/ /\ \E gone \in SUBSET ChunkIdx, taken \in SUBSET strays[upload_id] :
                      /\ chunks' = [chunks EXCEPT ![upload_id] =
                                      [i \in ChunkIdx |->
                                         IF i \in gone THEN NoChunk ELSE @[i]]]
                      /\ strays' = [strays EXCEPT ![upload_id] = @ \ taken]
                 /\ Finish(w, ErrRes("cleanup", upload_id,
                                      "Failed to cleanup upload chunks"))
                 /\ UNCHANGED chunkDir
              \/ /\ chunkDir' = [chunkDir EXCEPT ![upload_id] = NoDir]
                 /\ chunks' = WithoutUpload(chunks, upload_id, EmptyChunks)
                 /\ strays' = WithoutUpload(strays, upload_id, {})
                 /\ Finish(w, [NoRes EXCEPT !.status = "ok", !.op = "cleanup",
                                  !.sid = upload_id])
    /\ UNCHANGED <<now, sessions, nextSid, files, nextFid, blobs, nacks, acked,
                   completed, max_file_size, served, dirs>>

\* ----------------------------------------------------------------- FileStorage
\* A response of the file store for file_id / relative_path.
FileRes(op, status, msg, file_id, relative_path) ==
    [NoRes EXCEPT !.op = op, !.status = status, !.msg = msg, !.uuid = file_id,
                  !.path = relative_path]

\* FileStorage::store_file called on its own: create_dir_all of the parent,
\* the write, then the path relative to the root.
StoreFile(w) ==
    /\ At(w, "idle")
    /\ \E file_id \in Uuids, encrypted_data \in FileData :
         LET file_path == GenerateFilePath(file_id) IN
         \/ /\ Finish(w, FileRes("store_file", "err",
                                  "Failed to create directory", file_id, <<>>))
            /\ UNCHANGED <<blobs, dirs>>
         \/ /\ dirs' = dirs \cup DirsFor(file_path)
            /\ \/ /\ Finish(w, FileRes("store_file", "err",
                                        "Failed to write file", file_id, <<>>))
                  /\ UNCHANGED blobs
               \/ /\ blobs' = [blobs EXCEPT ![file_path] = encrypted_data]
                  /\ IF StartsWith(file_path, Root)
                     THEN Finish(w, [FileRes("store_file", "ok", "", file_id,
                                             StripPrefix(file_path, Root))
                                       EXCEPT !.data = encrypted_data])
                     ELSE Finish(w, FileRes("store_file", "err",
                                            "Failed to get relative path",
                                            file_id, <<>>))
    /\ UNCHANGED <<now, sessions, nextSid, chunkDir, chunks, files, nextFid,
                   nacks, acked, completed, max_file_size, served, strays>>

\* retrieve_file's error for every kind of io::Error.
ReadErrorGeneric(kind) == "Failed to read file"

\* retrieve_file's error for an io::Error of this kind.
ReadError(kind) ==
    IF kind = "NotFound" THEN "File not found" ELSE "Failed to read file"

\* FileStorage::retrieve_file called on its own: fs::read of the root joined
\* with the relative path; no file there is io::ErrorKind::NotFound.
RetrieveFile(w) ==
    /\ At(w, "idle")
    /\ \E relative_path \in RelativePaths :
         LET file_path == Join(Root, relative_path) IN
         IF Content(file_path) = NoBlob
         THEN Finish(w, FileRes("retrieve", "err", ReadError("NotFound"),
                                <<>>, relative_path))
         ELSE \/ Finish(w, FileRes("retrieve", "err", ReadError("Other"),
                                   <<>>, relative_path))
              \/ Finish(w, [FileRes("retrieve", "ok", "", <<>>, relative_path)
                              EXCEPT !.data = Content(file_path)])
    /\ UNCHANGED <<now, sessions, nextSid, chunkDir, chunks, files, nextFid,
                   blobs, nacks, acked, completed, max_file_size, served, dirs, strays>>

\* FileStorage::delete_file up to cleanup_empty_dirs: remove_file; a file
\* that is not there is Ok(()), another failure an error.
DfBegin(w) ==
    /\ At(w, "idle")
    /\ \E relative_path \in RelativePaths :
         LET file_path == Join(Root, relative_path) IN
         IF Content(file_path) = NoBlob
         THEN /\ Finish(w, FileRes("delete", "ok", "", <<>>, relative_path))
              /\ UNCHANGED blobs
         ELSE \/ /\ Finish(w, FileRes("delete", "err", "Failed to delete file",
                                       <<>>, relative_path))
                 /\ UNCHANGED blobs
              \/ /\ blobs' = [blobs EXCEPT ![file_path] = NoBlob]
                 /\ Step(w, [IdleWorker EXCEPT
                               !.pc = "df_cleanup", !.file_path = file_path,
                               !.relative_path = relative_path])
    /\ UNCHANGED <<now, sessions, nextSid, chunkDir, chunks, files, nextFid,
                   nacks, acked, completed, max_file_size, served, dirs, strays>>

\* No file is directly in directory d.
HoldsNoFile(d) ==
    \A path \in FilePaths : Parent(path) = d => blobs[path] = NoBlob

\* read_dir(d) yields no first entry: neither a file nor a directory.
IsEmptyDir(d) ==
    /\ \A path \in FilePaths : Parent(path) = d => blobs[path] = NoBlob
    /\ \A sub \in dirs : Parent(sub) # d

\* cleanup_empty_dirs(file_path), one call with the file system working:
\* a parent inside the root, other than the root and empty is removed and
\* the call recurs on it; otherwise delete_file returns Ok(()), having
\* logged the deletion.
DfWalk(w) ==
    /\ At(w, "df_cleanup")
    /\ LET parent == Parent(wk[w].file_path) IN
       IF /\ StartsWith(parent, Root)
          /\ parent # Root
          /\ parent \in dirs
          /\ IsEmptyDir(parent)
       THEN /\ dirs' = dirs \ {parent}
            /\ Step(w, [wk[w] EXCEPT !.file_path = parent])
       ELSE /\ Finish(w, FileRes("delete", "ok", "Deleted file", <<>>,
                                  wk[w].relative_path))
            /\ UNCHANGED dirs
    /\ UNCHANGED <<now, sessions, nextSid, chunkDir, chunks, files, nextFid,
                   blobs, nacks, acked, completed, max_file_size, served, strays>>

\* cleanup_empty_dirs(file_path), one call in which read_dir or remove_dir
\* fails: nothing is removed and delete_file returns Ok(()).
DfStop(w) ==
    /\ At(w, "df_cleanup")
    /\ LET parent == Parent(wk[w].file_path) IN
       /\ StartsWith(parent, Root)
       /\ parent # Root
    /\ Finish(w, FileRes("delete", "ok", "Deleted file", <<>>,
                          wk[w].relative_path))
    /\ UNCHANGED <<now, sessions, nextSid, chunkDir, chunks, files, nextFid,
                   blobs, nacks, acked, completed, max_file_size, served, dirs, strays>>

\* ------------------------------------------------------------ specification
\* One step of a handler run by task w.
Handler(w) ==
    \/ StartChunkedUpload(w)
    \/ UcBegin(w)
    \/ UcExists(w)
    \/ UcStore(w)
    \/ UcIncFind(w)
    \/ UcIncUpdate(w)
    \/ UcAbandon(w)
    \/ CcBegin(w)
    \/ CcAssemble(w)
    \/ CcStore(w)
    \/ CcRecord(w)
    \/ CcCleanup(w)
    \/ CcDelete(w)
    \/ StBegin(w)
    \/ StList(w)

\* The server: the clock, and every task running handlers at its own pace.
Next ==
    \/ Tick
    \/ Deliver
    \/ \E w \in Workers : Handler(w)

Spec == Init /\ [][Next]_vars

\* The server with one request in service at a time: a single task, which
\* starts a handler only after the one before it has answered.
NextSeq ==
    \/ Tick
    \/ Deliver
    \/ Handler(1)

SpecSeq == Init /\ [][NextSeq]_vars

\* The server within one hour: every task running handlers at its own pace
\* while the clock stands still.
NextRace ==
    \/ Deliver
    \/ \E w \in Workers : Handler(w)

SpecRace == Init /\ [][NextRace]_vars

\* start_chunked_upload alone, under any configuration.
NextStart ==
    \/ Deliver
    \/ \E w \in Workers : StartChunkedUpload(w)

SpecStart == InitAnyConfig /\ [][NextStart]_vars

\* The chunk store used on its own, one call at a time, in a chunks root
\* where other entries may appear.
NextStore ==
    \/ Deliver
    \/ StoreChunk(1)
    \/ ForeignEntry
    \/ AsBegin(1)
    \/ CcAssemble(1)
    \/ AsReturn(1)
    \/ ListChunks(1)
    \/ CleanupUpload(1)

SpecStore == Init /\ [][NextStore]_vars

\* The file store used on its own, one call at a time.
NextFiles ==
    \/ Deliver
    \/ StoreFile(1)
    \/ RetrieveFile(1)
    \/ DfBegin(1)
    \/ DfWalk(1)
    \/ DfStop(1)

SpecFiles == Init /\ [][NextFiles]_vars

\* The texts of the errors that come from the database, the file system or
\* a dropped request, and not from a handler's checks.
FaultMsgs ==
    {"Database error", "abandoned", "Failed to create upload directory",
     "Failed to write chunk", "Failed to read chunk", "Failed to write file",
     "Failed to create directory",
     "Failed to read upload directory"}

\* In this step of task w nothing fails: no error of FaultMsgs is answered,
\* cleanup_upload removes the directory and delete_upload_session the row.
Quiet(w) ==
    /\ resp'.res.msg \notin FaultMsgs
    /\ wk'[w].pc = "cc_delete" => wk'[w].clean
    /\ wk[w].pc = "cc_delete" => ~sessions'[wk[w].sid].exists

\* One step of a handler run by task w with the database and the file
\* system working and the client waiting for the answer.
QuietHandler(w) ==
    /\ \/ StartChunkedUpload(w)
       \/ UcBegin(w)
       \/ UcExists(w)
       \/ UcStore(w)
       \/ UcIncFind(w)
       \/ UcIncUpdate(w)
       \/ CcBegin(w)
       \/ CcAssemble(w)
       \/ CcStore(w)
       \/ CcRecord(w)
       \/ CcCleanup(w)
       \/ CcDelete(w)
       \/ StBegin(w)
       \/ StList(w)
    /\ Quiet(w)

\* The server with one request in service at a time and nothing failing.
NextQuiet ==
    \/ Tick
    \/ Deliver
    \/ QuietHandler(1)

SpecQuiet == Init /\ [][NextQuiet]_vars

\* ------------------------------------------------------------- properties
\* In this step task w, idle before it, takes the first step of upload_chunk
\* for chunk n of session s: it answers at once, or goes on to chunk_exists.
BeginsChunk(w, s, n) ==
    /\ wk[w].pc = "idle"
    /\ \/ /\ resp'.w = w
          /\ resp'.res.op = "chunk"
          /\ resp'.res.sid = s
          /\ resp'.res.chunk_number = n
       \/ /\ wk'[w].pc = "uc_exists"
          /\ wk'[w].sid = s
          /\ wk'[w].idx = n

\* In this step task w, idle before it, takes the first step of
\* complete_chunked_upload for session s.
BeginsComplete(w, s) ==
    /\ wk[w].pc = "idle"
    /\ \/ /\ resp'.w = w
          /\ resp'.res.op = "complete"
          /\ resp'.res.sid = s
       \/ /\ wk'[w].pc = "cc_assemble"
          /\ wk'[w].sid = s

\* Task w runs upload_chunk for session s.
InUploadChunk(w, s) ==
    /\ wk[w].sid = s
    /\ wk[w].pc \in {"uc_exists", "uc_store", "uc_inc_find", "uc_inc_update"}

\* C1: once every upload_chunk request of a session has returned, and the
\* requests that stored a chunk and returned success carried pairwise
\* distinct chunk numbers, uploaded_chunks equals the number of those
\* requests: no increment is lost.
C1_NoIncrementLost ==
    \A s \in SessionIds :
        (/\ sessions[s].exists
         /\ \A w \in Workers : ~InUploadChunk(w, s)
         /\ Cardinality(acked[s]) = nacks[s])
        => sessions[s].uploaded_chunks = nacks[s]

\* C2 as stated: whenever upload_chunk answers a request for a chunk that is
\* already stored (through its checks or its chunk_exists test, and not by a
\* database failure or a dropped request), the answer is a success carrying
\* the uploaded_chunks and progress the session had before the request, and
\* neither the session row nor any chunk changes.
C2_ResubmissionAnswersProgress ==
    [][\A w \in Workers, s \in SessionIds, n \in ChunkIdx :
          (/\ sessions[s].exists
           /\ chunks[s][n] # NoChunk
           /\ wk[w].pc \in {"idle", "uc_exists"}
           /\ resp'.w = w
           /\ resp'.res.op = "chunk"
           /\ resp'.res.sid = s
           /\ resp'.res.chunk_number = n
           /\ resp'.res.msg \notin {"abandoned", "Database error"})
          => /\ resp'.res.status = "ok"
             /\ resp'.res.uploaded_chunks = sessions[s].uploaded_chunks
             /\ resp'.res.progress =
                    <<sessions[s].uploaded_chunks, sessions[s].total_chunks>>
             /\ sessions' = sessions
             /\ chunks' = chunks]_vars

\* C2, amended: for a session that exists, is not expired and is not yet
\* complete, a request for a chunk that is already stored passes the checks
\* of upload_chunk unchanged, and its chunk_exists step answers success with
\* the uploaded_chunks and progress the session had before the request,
\* changing neither the session row nor any chunk (a database failure and a
\* dropped request aside).
C2_ResubmissionOfOpenSession ==
    [][\A w \in Workers, s \in SessionIds, n \in ChunkIdx :
          (/\ sessions[s].exists
           /\ now <= sessions[s].expires_at
           /\ sessions[s].uploaded_chunks < sessions[s].total_chunks
           /\ chunks[s][n] # NoChunk)
          => /\ (BeginsChunk(w, s, n) /\ resp'.res.msg # "Database error")
                => /\ wk'[w].pc = "uc_exists"
                   /\ wk'[w].snap = sessions[s]
                   /\ sessions' = sessions
                   /\ chunks' = chunks
             /\ (/\ wk[w].pc = "uc_exists"
                 /\ wk[w].sid = s
                 /\ wk[w].idx = n
                 /\ wk'[w] # wk[w]
                 /\ resp'.res.msg # "abandoned")
                => /\ resp'.w = w
                   /\ resp'.res.status = "ok"
                   /\ resp'.res.chunk_number = n
                   /\ resp'.res.uploaded_chunks = sessions[s].uploaded_chunks
                   /\ resp'.res.progress =
                          <<sessions[s].uploaded_chunks, sessions[s].total_chunks>>
                   /\ sessions' = sessions
                   /\ chunks' = chunks]_vars

\* C2's case: upload_chunk has answered a resubmission of a stored chunk of
\* an open session that counts one chunk of two.
C2_Witness ==
    /\ resp.res.op = "chunk"
    /\ resp.res.status = "ok"
    /\ resp.res.msg = "already exists, skipping"
    /\ resp.res.uploaded_chunks = 1
    /\ resp.res.total_chunks = 2
    /\ sessions[resp.res.sid].uploaded_chunks = 1
    /\ chunks[resp.res.sid][resp.res.chunk_number] # NoChunk

\* C3: in every state, every session row has
\* 0 <= uploaded_chunks <= total_chunks.
C3_CounterWithinTotal ==
    \A s \in SessionIds :
        sessions[s].exists
        => /\ 0 <= sessions[s].uploaded_chunks
           /\ sessions[s].uploaded_chunks <= sessions[s].total_chunks

\* C4: no step decreases the uploaded_chunks of a session row, or the
\* download_count of a file row, that is there before and after the step.
C4_CountersNeverDecrease ==
    [][/\ \A s \in SessionIds :
            (sessions[s].exists /\ sessions'[s].exists)
            => sessions'[s].uploaded_chunks >= sessions[s].uploaded_chunks
       /\ \A f \in FileIds :
            (files[f].exists /\ files'[f].exists)
            => files'[f].download_count >= files[f].download_count]_vars

\* C5: a session is resumable when its counter can still reach total_chunks:
\* the chunks counted, plus the chunk numbers not yet on disk (each can still
\* be stored and counted), plus the requests that have stored their chunk and
\* are about to count it, are at least total_chunks.  A step in which
\* upload_chunk answers an error, or is dropped, on a resumable session
\* leaves uploaded_chunks as it was and the session resumable.
C5_FailedChunkLeavesResumable ==
    [][\A s \in SessionIds :
          LET Absent(disk, row) ==
                  {n \in ChunkIdx : n < row.total_chunks /\ disk[s][n] = NoChunk}
              Counting(tasks) ==
                  {w \in Workers : /\ tasks[w].sid = s
                                   /\ tasks[w].pc \in {"uc_inc_find", "uc_inc_update"}}
              Reach(row, disk, tasks) ==
                  row.uploaded_chunks + Cardinality(Absent(disk, row))
                      + Cardinality(Counting(tasks))
          IN
          (/\ sessions[s].exists
           /\ Reach(sessions[s], chunks, wk) >= sessions[s].total_chunks
           /\ resp'.res.op = "chunk"
           /\ resp'.res.sid = s
           /\ resp'.res.status = "err")
          => /\ sessions'[s].uploaded_chunks = sessions[s].uploaded_chunks
             /\ Reach(sessions'[s], chunks', wk') >= sessions'[s].total_chunks]_vars

\* C6: complete_chunked_upload answers an error at its first step when the
\* session does not exist, is expired or has uploaded_chunks < total_chunks;
\* and when it answers an error, at whichever step, it has until then
\* changed no file row, no session row and no chunk: its steps up to
\* store_file change none of them, and after the file row is created it
\* answers no error.
C6_FailedCompleteChangesNothing ==
    [][\A w \in Workers, s \in SessionIds :
          /\ (/\ BeginsComplete(w, s)
              /\ \/ ~sessions[s].exists
                 \/ now > sessions[s].expires_at
                 \/ sessions[s].uploaded_chunks < sessions[s].total_chunks)
             => (resp'.w = w /\ resp'.res.status = "err")
          /\ BeginsComplete(w, s)
             => UNCHANGED <<files, sessions, chunks, chunkDir>>
          /\ (/\ wk[w].pc \in {"cc_assemble", "cc_store"}
              /\ wk[w].sid = s
              /\ wk'[w] # wk[w])
             => UNCHANGED <<files, sessions, chunks, chunkDir>>
          /\ (/\ resp'.w = w
              /\ resp'.res.op = "complete"
              /\ resp'.res.sid = s
              /\ resp'.res.status = "err")
             => /\ UNCHANGED <<files, sessions, chunks, chunkDir>>
                /\ wk[w].pc \in {"idle", "cc_assemble", "cc_store", "cc_record"}]_vars

\* C6's case: complete_chunked_upload has answered "Missing chunk" for a
\* session whose row is still there.
C6_Witness ==
    /\ resp.res.op = "complete"
    /\ resp.res.status = "err"
    /\ resp.res.msg = "Missing chunk"
    /\ sessions[resp.res.sid].exists
    /\ sessions[resp.res.sid].uploaded_chunks = sessions[resp.res.sid].total_chunks

\* C7: once complete_chunked_upload has created the file row (from there on
\* it answers success), the file at the row's file_path has length
\* total_size and its byte at position p is byte ((p-1) mod chunk_size) + 1
\* of chunk (p-1) div chunk_size: the chunks in ascending order.
C7_BlobIsChunksInOrder ==
    \A w \in Workers :
        wk[w].pc = "cc_cleanup"
        => LET s == sessions[wk[w].sid]
               blob == Content(Join(Root, files[wk[w].fid].file_path))
           IN /\ files[wk[w].fid].exists
              /\ blob # NoBlob
              /\ Len(blob) = s.total_size
              /\ \A p \in 1..s.total_size :
                    blob[p] = chunks[wk[w].sid][(p - 1) \div s.chunk_size]
                                  [((p - 1) % s.chunk_size) + 1]

\* C7's case: the file row of an upload of two chunks with different
\* content has been created.
C7_Witness ==
    \E w \in Workers :
        /\ wk[w].pc = "cc_cleanup"
        /\ sessions[wk[w].sid].total_chunks = 2
        /\ chunks[wk[w].sid][0] # chunks[wk[w].sid][1]
        /\ files[wk[w].fid].exists

\* C8: once complete_chunked_upload has answered success for a session with
\* its chunk directory removed and its row deleted, the session has no row
\* and no chunk: its directory is gone, no chunk path exists and
\* get_uploaded_chunks returns the empty list.
C8_CompletedSessionIsGone ==
    \A s \in completed :
        /\ ~sessions[s].exists
        /\ chunkDir[s] = NoDir
        /\ \A n \in ChunkIdx : chunks[s][n] = NoChunk
        /\ GetUploadedChunks(s) = <<>>

\* C9: the first step of upload_chunk answers an error, and changes no
\* session row, no chunk and no chunk directory, when the session does not
\* exist, the clock is past its creation time plus one hour,
\* uploaded_chunks >= total_chunks, or the chunk number is outside
\* [0, total_chunks).
C9_RejectedChunkChangesNothing ==
    [][\A w \in Workers, s \in SessionIds, n \in -1..MaxFileSize :
          (/\ BeginsChunk(w, s, n)
           /\ \/ ~sessions[s].exists
              \/ now > sessions[s].created_at + 1
              \/ sessions[s].uploaded_chunks >= sessions[s].total_chunks
              \/ n < 0
              \/ n >= sessions[s].total_chunks)
          => /\ resp'.w = w
             /\ resp'.res.status = "err"
             /\ UNCHANGED <<sessions, chunks, chunkDir>>]_vars

\* C9's case: upload_chunk has answered that the session has expired.
C9_Witness ==
    /\ resp.res.op = "chunk"
    /\ resp.res.status = "err"
    /\ resp.res.msg = "Upload session has expired"
    /\ sessions[resp.res.sid].exists
    /\ now > sessions[resp.res.sid].created_at + 1

\* C10: the step of upload_chunk that takes the body of a chunk not yet
\* stored writes it only with the length due at its number: chunk_size
\* before the last chunk, total_size - n * chunk_size at the last; and when it
\* answers "Invalid chunk size" the length it got is not that length, no
\* chunk is written and no session row changes.
C10_OnlyDueLengthStored ==
    [][\A w \in Workers :
          LET s == wk[w].sid
              n == wk[w].idx
              row == wk[w].snap
              due == IF n < row.total_chunks - 1 THEN row.chunk_size
                     ELSE row.total_size - n * row.chunk_size
          IN
          (wk[w].pc = "uc_store" /\ wk'[w] # wk[w])
          => /\ chunks'[s][n] # chunks[s][n]
                => /\ Len(chunks'[s][n]) = due
                   /\ wk'[w].pc = "uc_inc_find"
             /\ wk'[w].pc = "uc_inc_find"
                => (chunks'[s][n] # NoChunk /\ Len(chunks'[s][n]) = due)
             /\ (resp'.w = w /\ resp'.res.msg = "Invalid chunk size")
                => /\ resp'.res.status = "err"
                   /\ resp'.res.got # due
                   /\ resp'.res.expected = due
                   /\ chunks' = chunks
                   /\ sessions' = sessions]_vars

\* C10's case: upload_chunk has refused a body for the last chunk whose
\* length is the chunk_size, the last chunk being shorter.
C10_Witness ==
    /\ resp.res.op = "chunk"
    /\ resp.res.msg = "Invalid chunk size"
    /\ resp.res.got = sessions[resp.res.sid].chunk_size
    /\ resp.res.expected < resp.res.got
    /\ resp.res.chunk_number = sessions[resp.res.sid].total_chunks - 1
    /\ chunks[resp.res.sid][resp.res.chunk_number] = NoChunk

\* C11: every session row start_chunked_upload has inserted has
\* total_chunks = ceil(total_size / chunk_size), that is
\* (total_chunks - 1) * chunk_size < total_size <= total_chunks * chunk_size,
\* and the length due at its last chunk,
\* total_size - (total_chunks - 1) * chunk_size, is in [1, chunk_size].
C11_TotalChunksIsCeiling ==
    \A s \in SessionIds :
        sessions[s].exists
        => LET row == sessions[s]
               last == row.total_size - (row.total_chunks - 1) * row.chunk_size
           IN /\ (row.total_chunks - 1) * row.chunk_size < row.total_size
              /\ row.total_size <= row.total_chunks * row.chunk_size
              /\ 1 <= last
              /\ last <= row.chunk_size

\* C12: with requests served one at a time and nothing failing, for the set
\* S of chunk numbers upload_chunk has accepted for a session (in whatever
\* order), every status answer reports uploaded_chunks = |S|, the present
\* indices as S in ascending order and the completion flag true exactly
\* when S = {0..total_chunks-1}; and when S is that full set and the
\* session has not expired, complete_chunked_upload answers no error.
C12_AcceptedInAnyOrder ==
    \A s \in SessionIds :
        LET S == acked[s]
            r == resp.res
            full == 0..(sessions[s].total_chunks - 1)
        IN
        /\ (r.op = "status" /\ r.sid = s /\ r.status = "ok")
           => /\ sessions[s].exists
              /\ r.uploaded_chunks = Cardinality(S)
              /\ Len(r.chunk_numbers) = Cardinality(S)
              /\ \A i \in 1..Len(r.chunk_numbers) : r.chunk_numbers[i] \in S
              /\ \A i \in 1..(Len(r.chunk_numbers) - 1) :
                     r.chunk_numbers[i] < r.chunk_numbers[i + 1]
              /\ r.is_complete <=> (S = full)
        /\ (/\ r.op = "complete" /\ r.sid = s
            /\ sessions[s].exists
            /\ S = full
            /\ ~SessionIsExpired(sessions[s], now))
           => r.status = "ok"

\* C12, its case: chunk 1 of a two-chunk session was accepted before chunk
\* 0, and status reports one chunk, index 1, not complete.
C12_Witness ==
    \E s \in SessionIds :
        /\ resp.res.op = "status" /\ resp.res.sid = s /\ resp.res.status = "ok"
        /\ sessions[s].total_chunks = 2
        /\ acked[s] = {1}
        /\ resp.res.chunk_numbers = <<1>>
        /\ resp.res.uploaded_chunks = 1
        /\ ~resp.res.is_complete

\* The chunk numbers below total_chunks that upload u has no chunk file for.
Absent(u, total_chunks) ==
    {i \in 0..(total_chunks - 1) : ~(i \in ChunkIdx /\ chunks[u][i] # NoChunk)}

\* C13: an assemble_chunks call that answers "Missing chunk" names the
\* lowest chunk number below total_chunks that has no chunk file, and its
\* error carries no data; at the loop turn of that lowest number it does
\* answer so; and it returns Ok only when no number below total_chunks is
\* without a chunk file.
C13_MissingChunkIsLowest ==
    [][\A w \in Workers :
          LET absent == Absent(wk[w].sid, wk[w].snap.total_chunks) IN
          /\ (/\ wk[w].pc = "cc_assemble"
              /\ resp'.w = w
              /\ resp'.res.msg = "Missing chunk")
             => /\ resp'.res.chunk_number \in absent
                /\ \A i \in absent : resp'.res.chunk_number <= i
                /\ resp'.res.status = "err"
                /\ resp'.res.data = <<>>
          /\ (/\ wk[w].pc = "cc_assemble"
              /\ wk'[w] # wk[w]
              /\ wk[w].idx \in absent
              /\ \A i \in absent : wk[w].idx <= i)
             => /\ resp'.w = w
                /\ resp'.res.msg = "Missing chunk"
          /\ (/\ wk[w].pc = "cc_store"
              /\ resp'.w = w
              /\ resp'.res.op = "assemble"
              /\ resp'.res.status = "ok")
             => absent = {}]_vars

\* C13, its case: chunk 0 is stored, chunk 1 is not, and assemble_chunks
\* answers that chunk 1 is missing.
C13_Witness ==
    /\ resp.res.msg = "Missing chunk"
    /\ resp.res.chunk_number = 1
    /\ chunks[resp.res.sid][0] # NoChunk
    /\ chunks[resp.res.sid][1] = NoChunk

\* The place of chunk i's first byte in the bytes of upload u's chunks laid
\* end to end, counted from 0.
RECURSIVE ChunkOffset(_, _)
ChunkOffset(u, i) ==
    IF i = 0 THEN 0 ELSE ChunkOffset(u, i - 1) + Len(chunks[u][i - 1])

\* C14: when assemble_chunks(u, n) returns Ok, every chunk 0..n-1 is stored
\* and the bytes returned are those chunks laid end to end in index order:
\* the byte sequence the chunks are a split of, whatever the order they
\* were stored in.
C14_AssembleInvertsSplit ==
    (resp.res.op = "assemble" /\ resp.res.status = "ok")
    => LET u == resp.res.sid
           n == resp.res.total_chunks
       IN /\ Absent(u, n) = {}
          /\ Len(resp.res.data) = ChunkOffset(u, n)
          /\ \A i \in 0..(n - 1) :
                \A j \in 1..Len(chunks[u][i]) :
                    resp.res.data[ChunkOffset(u, i) + j] = chunks[u][i][j]

\* C14, its case: a three-byte sequence split into a chunk of two bytes and
\* a chunk of one, assembled again.
C14_Witness ==
    /\ resp.res.op = "assemble" /\ resp.res.status = "ok"
    /\ resp.res.total_chunks = 2
    /\ Len(chunks[resp.res.sid][0]) = 2
    /\ Len(chunks[resp.res.sid][1]) = 1
    /\ Len(resp.res.data) = 3

\* The sequence seq lists the numbers of set S, each once, ascending.
ListsAscending(seq, S) ==
    /\ Len(seq) = Cardinality(S)
    /\ \A x \in S : \E i \in 1..Len(seq) : seq[i] = x
    /\ \A i \in 1..(Len(seq) - 1) : seq[i] < seq[i + 1]

\* C15 as stated: get_uploaded_chunks(u) returns, ascending, exactly the
\* chunk numbers for which a chunk file of u is stored, whatever else the
\* directory holds, and the empty list when u has no directory.
C15_ListIsStoredChunks ==
    (resp.res.op = "list" /\ resp.res.status = "ok")
    => LET u == resp.res.sid IN
       /\ ListsAscending(resp.res.chunk_numbers,
                         {i \in ChunkIdx : chunks[u][i] # NoChunk})
       /\ chunkDir[u] = NoDir => resp.res.chunk_numbers = <<>>

\* C15, amended: when no other entry of u's directory is named "chunk_"
\* followed by decimal digits, get_uploaded_chunks(u) returns, ascending,
\* exactly the chunk numbers for which a chunk file of u is stored; and
\* the empty list when u has no directory.
C15_ListOfOwnDirectory ==
    (resp.res.op = "list" /\ resp.res.status = "ok")
    => LET u == resp.res.sid IN
       /\ (\A e \in strays[u] : ~Recognized(e))
          => ListsAscending(resp.res.chunk_numbers,
                            {i \in ChunkIdx : chunks[u][i] # NoChunk})
       /\ chunkDir[u] = NoDir => resp.res.chunk_numbers = <<>>

\* C15, its case: a directory with chunks 0 and 1 and with the entries
\* "000000" and "chunk_x" is listed as 0, 1.
C15_Witness ==
    /\ resp.res.op = "list" /\ resp.res.status = "ok"
    /\ resp.res.chunk_numbers = <<0, 1>>
    /\ strays[resp.res.sid] = {e \in ForeignNames : ~Recognized(e)}
    /\ Cardinality(strays[resp.res.sid]) = 2

\* C16: a cleanup_upload(u) call leaves the directory, the chunks and the
\* other entries of every other upload as they were; when it returns Ok,
\* u has no directory, no chunk and no other entry; and when u had no
\* directory it returns Ok and changes nothing.
C16_CleanupIsFramed ==
    [][\A w \in Workers, u \in UploadIds :
          (/\ wk[w].pc = "idle"
           /\ resp'.w = w
           /\ resp'.res.op = "cleanup"
           /\ resp'.res.sid = u)
          => /\ \A v \in UploadIds \ {u} :
                   /\ chunkDir'[v] = chunkDir[v]
                   /\ chunks'[v] = chunks[v]
                   /\ strays'[v] = strays[v]
             /\ resp'.res.status = "ok"
                => /\ chunkDir'[u] = NoDir
                   /\ \A i \in ChunkIdx : chunks'[u][i] = NoChunk
                   /\ strays'[u] = {}
             /\ chunkDir[u] = NoDir
                => /\ resp'.res.status = "ok"
                   /\ chunkDir' = chunkDir
                   /\ chunks' = chunks
                   /\ strays' = strays]_vars

\* C16, its case: cleanup_upload has returned Ok for an upload while
\* another upload holds a chunk and another entry.
C16_Witness ==
    \E v \in UploadIds :
        /\ resp.res.op = "cleanup" /\ resp.res.status = "ok"
        /\ v # resp.res.sid
        /\ chunkDir[resp.res.sid] = NoDir
        /\ \E i \in ChunkIdx : chunks[v][i] # NoChunk
        /\ strays[v] # {}

\* The file name of id: its first two digits, a hyphen, its other digits,
\* then ".enc".
FileNameOf(id) ==
    [i \in 1..(IdDigits + 2) |->
        IF i <= 2 THEN id[i]
        ELSE IF i = 3 THEN Hyphen
        ELSE IF i = IdDigits + 2 THEN DotEnc
        ELSE id[i - 1]]

\* C17: for the id of every file store_file has stored,
\* generate_file_path is root/<h1>/<h2>/<canonical id>.enc, h1 and h2 being
\* the first and the second level of the id's digits, and the file is at
\* that path; and every other id has another path.
C17_PathFromId ==
    (resp.res.op = "store_file" /\ resp.res.status = "ok")
    => LET id == resp.res.uuid
           expected == Root \o << <<id[1]>>, <<id[2]>>, FileNameOf(id) >>
       IN /\ GenerateFilePath(id) = expected
          /\ expected \in FilePaths
          /\ blobs[expected] = resp.res.data
          /\ \A other \in Uuids \ {id} : GenerateFilePath(other) # expected

\* C17, its case: the file of id 1 0 1 has been stored under 1/0.
C17_Witness ==
    /\ resp.res.op = "store_file" /\ resp.res.status = "ok"
    /\ resp.res.uuid = <<1, 0, 1>>
    /\ resp.res.path = << <<1>>, <<0>>, <<1, 0, Hyphen, 1, DotEnc>> >>

\* C18: the path store_file returns does not start with the storage root,
\* and joined to the root it is where the bytes stored are; retrieve_file
\* on a path whose file is there returns the bytes that are there, or a
\* read failure; and the bytes at a path change only by a store_file that
\* returns this path or by a delete_file of it.
C18_RetrieveGivesStored ==
    [][\A w \in Workers :
          (wk[w].pc = "idle" /\ resp'.w = w)
          => LET r == resp'.res
                 at == Join(Root, r.path)
             IN
             /\ (r.op = "store_file" /\ r.status = "ok")
                => /\ ~StartsWith(r.path, Root)
                   /\ at \in FilePaths
                   /\ blobs'[at] = r.data
             /\ (r.op = "retrieve" /\ Content(at) # NoBlob)
                => \/ r.status = "ok" /\ r.data = Content(at)
                   \/ r.status = "err" /\ r.msg = "Failed to read file"
             /\ \A path \in FilePaths :
                   blobs'[path] # blobs[path]
                   => \/ r.op = "store_file" /\ path = at
                      \/ wk'[w].pc = "df_cleanup"
                            /\ path = Join(Root, wk'[w].relative_path)]_vars

\* C18, its case: retrieve_file has returned the byte 1 stored at a path.
C18_Witness ==
    /\ resp.res.op = "retrieve" /\ resp.res.status = "ok"
    /\ resp.res.path \in RelativePaths
    /\ resp.res.data = <<1>>
    /\ blobs[Join(Root, resp.res.path)] = <<1>>

\* C19: retrieve_file on a path with no file answers "File not found", and
\* answers so on no other occasion; delete_file on a path with no file
\* returns Ok and changes neither a file nor a directory.
C19_AbsentFile ==
    [][\A w \in Workers :
          (wk[w].pc = "idle" /\ resp'.w = w)
          => LET r == resp'.res
                 absent == Content(Join(Root, r.path)) = NoBlob
             IN
             /\ (r.op = "retrieve" /\ absent)
                => r.status = "err" /\ r.msg = "File not found"
             /\ (r.op = "retrieve" /\ r.msg = "File not found") => absent
             /\ (r.op = "delete" /\ absent)
                => /\ r.status = "ok"
                   /\ blobs' = blobs
                   /\ dirs' = dirs]_vars

\* C19, its case: retrieve_file has answered "File not found" for a path
\* whose directory exists while the file is not there.
C19_Witness ==
    /\ resp.res.op = "retrieve"
    /\ resp.res.msg = "File not found"
    /\ Parent(Join(Root, resp.res.path)) \in dirs

\* Directory d has no entry: no file and no directory directly in it.
NoEntryIn(d) ==
    /\ \A id \in Uuids :
          blobs[GenerateFilePath(id)] # NoBlob
          => Parent(GenerateFilePath(id)) # d
    /\ \A sub \in dirs : SubSeq(sub, 1, Len(sub) - 1) # d

FreshId(file_id) ==
    LET file_path == GenerateFilePath(file_id) IN
    /\ Content(file_path) = NoBlob
    /\ \A v \in Workers :
          /\ wk[v].uuid # file_id
          /\ wk[v].relative_path # StripPrefix(file_path, Root)

\* FileStorage::store_file up to its write: create_dir_all of the parent,
\* which makes the two levels or finds them there.
SfCreateDirs(w) ==
    /\ At(w, "idle")
    /\ \E file_id \in Uuids, encrypted_data \in FileData :
         LET file_path == GenerateFilePath(file_id) IN
         /\ FreshId(file_id)
         /\ \/ /\ Finish(w, FileRes("store_file", "err",
                                     "Failed to create directory", file_id,
                                     <<>>))
               /\ UNCHANGED dirs
            \/ /\ dirs' = dirs \cup DirsFor(file_path)
               /\ Step(w, [IdleWorker EXCEPT
                             !.pc = "sf_write", !.uuid = file_id,
                             !.file_path = file_path, !.buf = encrypted_data])
    /\ UNCHANGED <<now, sessions, nextSid, chunkDir, chunks, files, nextFid,
                   blobs, nacks, acked, completed, max_file_size, served, strays>>

\* FileStorage::store_file from its write on: fs::write creates the file in
\* the parent directory, and fails with io::ErrorKind::NotFound when the
\* parent is not there; the error text carries the io::Error.
SfWrite(w) ==
    /\ At(w, "sf_write")
    /\ LET file_path == wk[w].file_path
           file_id == wk[w].uuid
       IN
       IF Parent(file_path) \notin dirs
       THEN /\ Finish(w, FileRes("store_file", "err",
                                  "Failed to write file: NotFound", file_id,
                                  <<>>))
            /\ UNCHANGED blobs
       ELSE \/ /\ Finish(w, FileRes("store_file", "err",
                                     "Failed to write file", file_id, <<>>))
               /\ UNCHANGED blobs
            \/ /\ blobs' = [blobs EXCEPT ![file_path] = wk[w].buf]
               /\ Finish(w, [FileRes("store_file", "ok", "", file_id,
                                     StripPrefix(file_path, Root))
                               EXCEPT !.data = wk[w].buf])
    /\ UNCHANGED <<now, sessions, nextSid, chunkDir, chunks, files, nextFid,
                   nacks, acked, completed, max_file_size, served, dirs, strays>>

\* The error texts of a file system that fails on its own account.
IoFaults ==
    {"Failed to create directory", "Failed to write file",
     "Failed to delete file"}

\* The files in the tree, and the calls of store_file on their way to it.
StoredOrStoring ==
    Cardinality({path \in FilePaths : blobs[path] # NoBlob})
       + Cardinality({v \in Workers : wk[v].pc = "sf_write"})

\* One step of store_file or delete_file run by task w on a file system
\* that does not fail on its own account, holding up to MaxStored files.
ShardStep(w) ==
    /\ \/ SfCreateDirs(w) /\ StoredOrStoring < MaxStored
       \/ SfWrite(w)
       \/ DfBegin(w)
       \/ DfWalk(w)
    /\ resp'.res.msg \notin IoFaults

\* The file store used by every task at once: store_file of fresh ids and
\* delete_file, each at its own pace.
NextShard ==
    \/ Deliver
    \/ \E w \in Workers : ShardStep(w)

SpecShard == Init /\ [][NextShard]_vars

\* C21: with the file system working, a store_file that runs while other
\* tasks run delete_file on other files returns Ok with its bytes at the
\* path it returns, and every delete_file returns Ok.
C21_StoreBesideDelete ==
    [][\A w \in Workers :
          (resp'.w = w /\ resp'.res.op \in {"store_file", "delete"})
          => /\ resp'.res.status = "ok"
             /\ resp'.res.op = "store_file"
                => blobs'[Join(Root, resp'.res.path)] = resp'.res.data]_vars

\* ------------------------------------------------------------- encryption
\* EncryptionKey values, the nonces generate_nonce can draw, and the
\* plaintexts of the model.
Keys == [1..KeyLen -> Bytes]
Nonces == [1..NonceLen -> Bytes]
Plaintexts == UNION {[1..n -> Bytes] : n \in 0..MaxPlain}

\* The length of the authentication tag AES-GCM appends (16 bytes), scaled.
TagLen == 1

RECURSIVE Sum(_)
Sum(seq) == IF seq = <<>> THEN 0 ELSE Head(seq) + Sum(Tail(seq))

\* The key stream of the cipher at position i, for a key and a nonce.
KeyStream(key, nonce, i) == (Sum(key) + Sum(nonce) + i) % (MaxOctet + 1)

\* The number that stands for a byte string, one for one.
RECURSIVE Code(_)
Code(seq) ==
    IF seq = <<>> THEN 0
    ELSE Code(SubSeq(seq, 1, Len(seq) - 1)) * (MaxOctet + 2)
            + seq[Len(seq)] + 1

\* The tag of a message under a key and a nonce.  It stands for a tag that
\* no other key, nonce or message yields.
TagOf(key, nonce, data) == Code(key \o nonce \o data)

\* Aes256Gcm::encrypt: the bytes masked by the key stream, then the tag.
Seal(key, nonce, data) ==
    [i \in 1..Len(data) |->
        (data[i] + KeyStream(key, nonce, i)) % (MaxOctet + 1)]
       \o <<TagOf(key, nonce, data)>>

\* The bytes a ciphertext masks, when read under a key and a nonce.
Unmasked(key, nonce, ciphertext) ==
    [i \in 1..(Len(ciphertext) - TagLen) |->
        (ciphertext[i] + (MaxOctet + 1) - KeyStream(key, nonce, i))
           % (MaxOctet + 1)]

\* Encryption::encrypt, nonce being the one generate_nonce drew.
Encrypt(data, key, nonce) ==
    [ciphertext |-> Seal(key, nonce, data), nonce |-> nonce]

\* Encryption::decrypt without the check of the tag.
DecryptUnverified(encrypted_data, key) ==
    IF Len(encrypted_data.nonce) # NonceLen
    THEN [ok |-> FALSE, err |-> "Invalid nonce length", data |-> <<>>]
    ELSE IF Len(encrypted_data.ciphertext) < TagLen
    THEN [ok |-> FALSE, err |-> "Decryption failed", data |-> <<>>]
    ELSE [ok |-> TRUE, err |-> "",
          data |-> Unmasked(key, encrypted_data.nonce,
                            encrypted_data.ciphertext)]

\* Encryption::decrypt: a nonce of another length than NonceLen is
\* InvalidNonceLength; a ciphertext whose tag is not the one of its bytes
\* under this key and nonce is DecryptionFailed.
Decrypt(encrypted_data, key) ==
    IF Len(encrypted_data.nonce) # NonceLen
    THEN [ok |-> FALSE, err |-> "Invalid nonce length", data |-> <<>>]
    ELSE IF Len(encrypted_data.ciphertext) < TagLen
    THEN [ok |-> FALSE, err |-> "Decryption failed", data |-> <<>>]
    ELSE LET ciphertext == encrypted_data.ciphertext
             plaintext == Unmasked(key, encrypted_data.nonce, ciphertext)
         IN IF ciphertext[Len(ciphertext)]
                  = TagOf(key, encrypted_data.nonce, plaintext)
            THEN [ok |-> TRUE, err |-> "", data |-> plaintext]
            ELSE [ok |-> FALSE, err |-> "Decryption failed", data |-> <<>>]

\* A caller of the library encrypts data under a key.
EncryptCall(w) ==
    /\ At(w, "idle")
    /\ \E data \in Plaintexts, key \in Keys, nonce \in Nonces :
         Step(w, [IdleWorker EXCEPT !.pc = "encrypted", !.buf = data,
                                    !.key = key,
                                    !.enc = Encrypt(data, key, nonce)])
    /\ UNCHANGED <<now, sessions, nextSid, chunkDir, chunks, files, nextFid,
                   blobs, nacks, acked, completed, max_file_size, served,
                   dirs, strays>>

\* The nonces a caller may hand to decrypt with a ciphertext: the one that
\* came with it, that one cut short or extended, or another one.
NoncesFor(nonce) ==
    Nonces \cup {SubSeq(nonce, 1, NonceLen - 1), nonce \o <<0>>, <<>>}

\* The caller decrypts what it holds, under some key and with some nonce.
DecryptCall(w) ==
    /\ At(w, "encrypted")
    /\ \E key \in Keys, nonce \in NoncesFor(wk[w].enc.nonce) :
         LET d == Decrypt([wk[w].enc EXCEPT !.nonce = nonce], key) IN
         Finish(w, [NoRes EXCEPT !.op = "decrypt",
                                 !.status = IF d.ok THEN "ok" ELSE "err",
                                 !.msg = d.err, !.data = d.data,
                                 !.key = key, !.nonce = nonce])
    /\ UNCHANGED <<now, sessions, nextSid, chunkDir, chunks, files, nextFid,
                   blobs, nacks, acked, completed, max_file_size, served,
                   dirs, strays>>

\* The encryption library used on its own.
NextCrypt ==
    \/ Deliver
    \/ \E w \in Workers : EncryptCall(w)
    \/ \E w \in Workers : DecryptCall(w)

SpecCrypt == Init /\ [][NextCrypt]_vars

\* C27: decrypt of what encrypt returned, under the key it was encrypted
\* with, gives back the data, the empty data included; under any other key
\* it fails with an error and gives no data; and with a nonce whose length
\* is not that of a nonce it fails, whatever the key.
C27_DecryptInvertsEncrypt ==
    [][\A w \in Workers :
          (wk[w].pc = "encrypted" /\ resp'.w = w)
          => LET r == resp'.res IN
             /\ (r.key = wk[w].key /\ r.nonce = wk[w].enc.nonce)
                => r.status = "ok" /\ r.data = wk[w].buf
             /\ (r.key # wk[w].key /\ Len(r.nonce) = NonceLen)
                => r.status = "err" /\ r.msg = "Decryption failed"
                      /\ r.data = <<>>
             /\ Len(r.nonce) # NonceLen
                => r.status = "err" /\ r.msg = "Invalid nonce length"
                      /\ r.data = <<>>]_vars

\* C27, its case: the empty data came back from decrypt under the key it
\* was encrypted with.
C27_Witness ==
    /\ resp.res.op = "decrypt" /\ resp.res.status = "ok"
    /\ resp.res.data = <<>>

\* ------------------------------------------------------------ key transport
\* The first character of the base64 alphabet, 'A', which encodes 0.
LetterCapA == 65

\* EncryptionKey::to_base64, one character for a byte here.
ToBase64(key) == [i \in 1..Len(key) |-> LetterCapA + key[i]]

\* EncryptionKey::from_base64: a character outside the alphabet is a decode
\* error, a decoded length other than that of a key InvalidKeyFormat.
FromBase64(encoded) ==
    IF \E i \in 1..Len(encoded) :
          encoded[i] \notin LetterCapA..(LetterCapA + MaxByte)
    THEN [ok |-> FALSE, err |-> "Base64 decode error", key |-> <<>>]
    ELSE IF Len(encoded) # KeyLen
    THEN [ok |-> FALSE, err |-> "Invalid key format", key |-> <<>>]
    ELSE [ok |-> TRUE, err |-> "",
          key |-> [i \in 1..Len(encoded) |-> encoded[i] - LetterCapA]]

\* ------------------------------------------------------------- upload_file
\* The row with the two nonces in each other's place.
EncryptedFileRecordSwapped(size, file_path, file_data, name_data, mime_type, expires_at, max_dl) ==
    [exists |-> TRUE, original_size |-> size,
     encrypted_size |-> Len(file_data.ciphertext),
     file_path |-> file_path,
     nonce |-> name_data.nonce,
     filename_nonce |-> file_data.nonce,
     expires_at |-> expires_at,
     download_count |-> 0, max_downloads |-> max_dl,
     encrypted_filename |-> name_data.ciphertext,
     mime_type |-> mime_type]

\* The row create_file_record inserts.
EncryptedFileRecord(size, file_path, file_data, name_data, mime_type, expires_at, max_dl) ==
    [exists |-> TRUE, original_size |-> size,
     encrypted_size |-> Len(file_data.ciphertext),
     file_path |-> file_path,
     nonce |-> file_data.nonce,
     filename_nonce |-> name_data.nonce,
     expires_at |-> expires_at,
     download_count |-> 0, max_downloads |-> max_dl,
     encrypted_filename |-> name_data.ciphertext,
     mime_type |-> mime_type]

\* upload_file's checks of the multipart fields (NoText: the field is not
\* there, or, for the file name, is empty): "" when they pass.
UploadRejection(file_data, filename) ==
    IF file_data # NoText /\ Len(file_data) > max_file_size
    THEN "File too large"
    ELSE IF file_data = NoText THEN "Missing file data"
    ELSE IF filename = NoText THEN "Missing filename"
    ELSE ""

\* upload_file up to create_file_record: the checks, a key and two nonces
\* drawn, content and file name encrypted each with its nonce, and
\* store_file of the ciphertext under a fresh id.  Req holds the requests
\* and Draws the random values of the model.
UfStore(w, Req, Draws) ==
    /\ At(w, "idle")
    /\ \E req \in Req, draw \in Draws :
         LET rejection == UploadRejection(req.file_data, req.filename)
             file_path == GenerateFilePath(NewV4(nextFid))
         IN
         IF rejection # ""
         THEN /\ Finish(w, [ErrRes("upload", 0, rejection) EXCEPT
                              !.code = IF rejection = "File too large"
                                       THEN 413 ELSE 400])
              /\ UNCHANGED <<nextFid, blobs, dirs>>
         ELSE LET encrypted_file_data ==
                      Encrypt(req.file_data, draw.key, draw.nonce)
                  encrypted_filename_data ==
                      Encrypt(req.filename, draw.key, draw.filename_nonce)
              IN
              \/ /\ Finish(w, [ErrRes("upload", 0,
                                      "Failed to create directory")
                                 EXCEPT !.code = 500])
                 /\ UNCHANGED <<nextFid, blobs, dirs>>
              \/ /\ dirs' = dirs \cup DirsFor(file_path)
                 /\ \/ /\ Finish(w, [ErrRes("upload", 0,
                                            "Failed to write file")
                                       EXCEPT !.code = 500])
                       /\ UNCHANGED <<nextFid, blobs>>
                    \/ /\ nextFid \in 1..MaxFiles
                       /\ nextFid' = nextFid + 1
                       /\ blobs' = [blobs EXCEPT ![file_path] =
                                      encrypted_file_data.ciphertext]
                       /\ Step(w, [IdleWorker EXCEPT
                             !.pc = "uf_record", !.fid = nextFid,
                             !.key = draw.key, !.buf = req.file_data,
                             !.filename = req.filename,
                             !.file = EncryptedFileRecord(
                                 Len(req.file_data),
                                 StripPrefix(file_path, Root),
                                 encrypted_file_data, encrypted_filename_data,
                                 req.mime_type,
                                 FileExpiresAt(req.expires_in_hours),
                                 req.max_downloads)])
    /\ UNCHANGED <<now, sessions, nextSid, chunkDir, chunks, files, nacks,
                   acked, completed, max_file_size, served, strays>>

\* upload_file: create_file_record, then the response with the key.
UfRecord(w) ==
    /\ At(w, "uf_record")
    /\ \/ /\ Finish(w, [ErrRes("upload", 0, "Database error") EXCEPT
                          !.code = 500])
          /\ UNCHANGED files
       \/ /\ files' = [files EXCEPT ![wk[w].fid] = wk[w].file]
          /\ Finish(w, [NoRes EXCEPT !.status = "ok", !.op = "upload",
                                     !.code = 200, !.file_id = wk[w].fid,
                                     !.uuid = NewV4(wk[w].fid),
                                     !.key = ToBase64(wk[w].key),
                                     !.data = wk[w].buf,
                                     !.filename = wk[w].filename])
    /\ UNCHANGED <<now, sessions, nextSid, chunkDir, chunks, nextFid, blobs,
                   nacks, acked, completed, max_file_size, served, dirs,
                   strays>>

\* The multipart requests of upload_file with these options, names, MIME
\* types and contents.
UploadRequests(Hours, Limits, Names, Mimes, Datas) ==
    [file_data : Datas, filename : Names, mime_type : Mimes,
     expires_in_hours : Hours, max_downloads : Limits]

\* What EncryptionKey::generate and generate_nonce can draw in one upload.
AllDraws == [key : Keys, nonce : Nonces, filename_nonce : Nonces]

\* The steps of upload_chunk and complete_chunked_upload.
ChunkedSteps(w) ==
    \/ UcBegin(w)
    \/ UcExists(w)
    \/ UcStore(w)
    \/ UcIncFind(w)
    \/ UcIncUpdate(w)
    \/ CcBegin(w)
    \/ CcAssemble(w)
    \/ CcStore(w)
    \/ CcRecord(w)
    \/ CcCleanup(w)
    \/ CcDelete(w)

\* File names with a character the download sanitises, and MIME types
\* with one that no header value may hold.
OddNames == {PlainName, <<Quote, CarriageReturn>>}
OddMimes == {NoText, <<LetterA, CarriageReturn>>}

\* The two ways a file is uploaded, one request at a time with nothing
\* failing: directly, with any key and nonces drawn, or in chunks.
NextUpload ==
    \/ Deliver
    \/ UfStore(1, UploadRequests({None}, {1}, {PlainName, NoText}, {NoText},
                                 {NoText, <<>>, <<0, 1>>}),
               AllDraws)
    \/ UfRecord(1)
    \/ /\ \/ StartUpload(1, {None}, {1}, OddNames, {NoText})
          \/ ChunkedSteps(1)
       /\ Quiet(1)

SpecUpload == Init /\ [][NextUpload]_vars

\* C26: a row has an empty nonce exactly when its filename nonce is empty.
\* The row complete_chunked_upload inserts has both empty, the stored size
\* equal to the original size, the session's file name as it is in
\* encrypted_filename and the assembled bytes as they are at its path.  The
\* row upload_file inserts has both nonces of the length of a nonce, and
\* under the key the response returns the bytes at its path decrypt with
\* nonce to the uploaded content and encrypted_filename with
\* filename_nonce to the uploaded name, neither being stored as it is.
C26_NonceTellsEncryption ==
    [][\A w \in Workers : \A f \in FileIds :
          (~files[f].exists /\ files'[f].exists /\ wk[w].fid = f)
          => LET row == files'[f]
                 blob == Content(Join(Root, row.file_path))
             IN
             /\ (row.nonce = <<>>) <=> (row.filename_nonce = <<>>)
             /\ wk[w].pc = "cc_record"
                => /\ row.nonce = <<>>
                   /\ row.encrypted_size = row.original_size
                   /\ row.encrypted_filename = wk[w].snap.filename
                   /\ blob = wk[w].buf
                   /\ Len(blob) = row.original_size
             /\ wk[w].pc = "uf_record"
                => LET key == FromBase64(resp'.res.key).key
                       content == Decrypt([ciphertext |-> blob,
                                           nonce |-> row.nonce], key)
                       name == Decrypt([ciphertext |->
                                            row.encrypted_filename,
                                        nonce |-> row.filename_nonce], key)
                   IN
                   /\ Len(row.nonce) = NonceLen
                   /\ Len(row.filename_nonce) = NonceLen
                   /\ FromBase64(resp'.res.key).ok
                   /\ content.ok /\ content.data = resp'.res.data
                   /\ name.ok /\ name.data = resp'.res.filename
                   /\ blob # resp'.res.data
                   /\ row.encrypted_filename # resp'.res.filename
                   /\ row.original_size = Len(resp'.res.data)
                   /\ row.encrypted_size = Len(blob)]_vars

\* C26, its case: an encrypted row whose two nonces differ, made by an
\* upload of two bytes.
C26_Witness ==
    \E f \in FileIds :
       /\ files[f].exists
       /\ files[f].nonce # <<>>
       /\ files[f].nonce # files[f].filename_nonce
       /\ files[f].original_size = 2
       /\ resp.res.op = "upload" /\ resp.res.status = "ok"

\* ------------------------------------------------------- download_file_form
\* file::Model::is_expired at time t.
FileIsExpired(file, t) == file.expires_at # None /\ t > file.expires_at

\* file::Model::is_download_limit_reached.
LimitReached(file) ==
    file.max_downloads # None /\ file.download_count >= file.max_downloads

\* file::Model::is_accessible at time t.
IsAccessible(file, t) == ~FileIsExpired(file, t) /\ ~LimitReached(file)

\* AppError::into_response: the status code of an error.
StatusOf(kind) ==
    CASE kind = "FileNotFound" -> 404
      [] kind = "FileExpired" -> 410
      [] kind = "DownloadLimitExceeded" -> 410
      [] kind = "FileTooLarge" -> 413
      [] kind = "BadRequest" -> 400
      [] OTHER -> 500

\* The error response of download_file_form for file f: the status code of
\* the AppError and its text.
DownloadErr(f, kind, text) ==
    [NoRes EXCEPT !.status = "err", !.op = "download", !.file_id = f,
                  !.code = StatusOf(kind), !.msg = text]

\* The check of accessibility with the limit looked at before the expiry.
AccessRejectionLimitFirst(file, t) ==
    IF IsAccessible(file, t) THEN ""
    ELSE IF LimitReached(file) THEN "DownloadLimitExceeded"
    ELSE IF FileIsExpired(file, t) THEN "FileExpired"
    ELSE ""

\* download_file_form's check of accessibility: "" when the file may be
\* served, else the AppError.
AccessRejection(file, t) ==
    IF IsAccessible(file, t) THEN ""
    ELSE IF FileIsExpired(file, t) THEN "FileExpired"
    ELSE IF LimitReached(file) THEN "DownloadLimitExceeded"
    ELSE ""

\* thiserror's Display of the three unit errors of a download.
ErrorText(kind) ==
    CASE kind = "FileNotFound" -> "File not found"
      [] kind = "FileExpired" -> "File expired"
      [] kind = "DownloadLimitExceeded" -> "Download limit exceeded"
      [] OTHER -> ""

\* The encryption_key fields of the download forms: empty, not base64, and
\* the encodings of the keys.
KeyTexts == {<<>>, <<Space>>} \cup {ToBase64(key) : key \in Keys}

\* download_file_form up to the read of the blob: the row, the check of
\* accessibility, and the key the form carries.
DlBegin(w) ==
    /\ At(w, "idle")
    /\ \E f \in FileIds, encryption_key \in KeyTexts :
         LET file == files[f]
             rejection == AccessRejection(file, now)
             is_encrypted == file.nonce # <<>>
         IN
         \/ Finish(w, DownloadErr(f, "DatabaseError", "Database error"))
         \/ IF ~file.exists
            THEN Finish(w, DownloadErr(f, "FileNotFound",
                                       ErrorText("FileNotFound")))
            ELSE IF rejection # ""
            THEN Finish(w, DownloadErr(f, rejection, ErrorText(rejection)))
            ELSE IF is_encrypted /\ ~FromBase64(encryption_key).ok
            THEN Finish(w, DownloadErr(f, "BadRequest",
                                       "Invalid encryption key"))
            ELSE IF ~is_encrypted /\ encryption_key # <<>>
            THEN Finish(w, DownloadErr(f, "BadRequest",
                     "This file is unencrypted and does not require an encryption key"))
            ELSE Step(w, [IdleWorker EXCEPT
                            !.pc = "dl_read", !.fid = f, !.file = file,
                            !.key = IF is_encrypted
                                    THEN FromBase64(encryption_key).key
                                    ELSE <<>>])
    /\ UNCHANGED <<now, sessions, nextSid, chunkDir, chunks, files, nextFid,
                   blobs, nacks, acked, completed, max_file_size, served,
                   dirs, strays>>

\* download_file_form: retrieve_file, and for an encrypted row the
\* decryption of content and file name under the key of the form.
DlRead(w) ==
    /\ At(w, "dl_read")
    /\ LET file == wk[w].file
           f == wk[w].fid
           data == Content(Join(Root, file.file_path))
           content == Decrypt([ciphertext |-> data, nonce |-> file.nonce],
                              wk[w].key)
           name == Decrypt([ciphertext |-> file.encrypted_filename,
                            nonce |-> file.filename_nonce], wk[w].key)
       IN
       IF data = NoBlob
       THEN Finish(w, DownloadErr(f, "FileNotFound",
                                  ErrorText("FileNotFound")))
       ELSE \/ Finish(w, DownloadErr(f, "ServerError", ReadError("Other")))
            \/ IF file.nonce = <<>>
               THEN Step(w, [wk[w] EXCEPT
                               !.pc = "dl_count", !.buf = data,
                               !.filename = file.encrypted_filename])
               ELSE IF ~content.ok
               THEN Finish(w, DownloadErr(f, "BadRequest",
                        "Failed to decrypt file - invalid encryption key"))
               ELSE IF ~name.ok
               THEN Finish(w, DownloadErr(f, "BadRequest",
                        "Failed to decrypt filename - invalid encryption key"))
               ELSE Step(w, [wk[w] EXCEPT
                               !.pc = "dl_count", !.buf = content.data,
                               !.filename = name.data])
    /\ UNCHANGED <<now, sessions, nextSid, chunkDir, chunks, files, nextFid,
                   blobs, nacks, acked, completed, max_file_size, served,
                   dirs, strays>>

\* HeaderValue's test of a byte: no control character.
ValidHeaderByte(b) == b >= Space

\* Whether a text is a header value.
ValidHeader(text) == \A i \in 1..Len(text) : ValidHeaderByte(text[i])

\* download_file_form's sanitising of the file name: '"' is escaped and a
\* line break becomes a space.
RECURSIVE Sanitized(_)
Sanitized(name) ==
    IF name = <<>> THEN <<>>
    ELSE (IF Head(name) = Quote THEN <<Backslash, Quote>>
          ELSE IF Head(name) = CarriageReturn THEN <<Space>>
          ELSE <<Head(name)>>) \o Sanitized(Tail(name))

\* The default Content-Type: "application/octet-stream".
OctetStream == <<LetterA>>

\* download_file_form's response once the count is dealt with: the builder
\* fails on a header value that is none, else the bytes are sent.
Respond(w) ==
    LET file == wk[w].file
        f == wk[w].fid
        content_type == IF file.mime_type = NoText THEN OctetStream
                        ELSE file.mime_type
    IN
    IF ValidHeader(content_type) /\ ValidHeader(Sanitized(wk[w].filename))
    THEN /\ Finish(w, [NoRes EXCEPT !.status = "ok", !.op = "download",
                                    !.code = 200, !.file_id = f,
                                    !.data = wk[w].buf,
                                    !.filename = Sanitized(wk[w].filename)])
         /\ served' = [served EXCEPT ![f] = @ + 1]
    ELSE /\ Finish(w, DownloadErr(f, "ServerError",
                                  "Failed to build streaming response"))
         /\ UNCHANGED served

\* increment_download_count, its find: the row as it is now; with no row
\* the count is left alone and the response follows.
DlCountFind(w) ==
    /\ At(w, "dl_count")
    /\ LET f == wk[w].fid IN
       \/ /\ Finish(w, DownloadErr(f, "DatabaseError", "Database error"))
          /\ UNCHANGED served
       \/ IF files[f].exists
          THEN /\ Step(w, [wk[w] EXCEPT
                             !.pc = "dl_update",
                             !.idx = files[f].download_count])
               /\ UNCHANGED served
          ELSE Respond(w)
    /\ UNCHANGED <<now, sessions, nextSid, chunkDir, chunks, files, nextFid,
                   blobs, nacks, acked, completed, max_file_size, dirs,
                   strays>>

\* increment_download_count, its update: the count read plus one is
\* written to the row, and the response follows; with the row gone the
\* update is an error.
DlCountUpdate(w) ==
    /\ At(w, "dl_update")
    /\ LET f == wk[w].fid IN
       \/ /\ Finish(w, DownloadErr(f, "DatabaseError", "Database error"))
          /\ UNCHANGED <<files, served>>
       \/ /\ files[f].exists
          /\ wk[w].idx < I32Max
          /\ files' = [files EXCEPT ![f].download_count = wk[w].idx + 1]
          /\ Respond(w)
    /\ UNCHANGED <<now, sessions, nextSid, chunkDir, chunks, nextFid, blobs,
                   nacks, acked, completed, max_file_size, dirs, strays>>

\* One step of download_file_form run by task w.
Download(w) ==
    \/ DlBegin(w)
    \/ DlRead(w)
    \/ DlCountFind(w)
    \/ DlCountUpdate(w)

\* The values drawn in the uploads of the download scenarios.
OneDraw == {[key |-> [i \in 1..KeyLen |-> 0],
             nonce |-> [i \in 1..NonceLen |-> 0],
             filename_nonce |-> [i \in 1..NonceLen |-> 1]]}

\* The upload requests of the download scenarios.
SomeUploads ==
    UploadRequests({None, 1}, {None, 1}, {PlainName}, OddMimes, {<<0, 1>>})

\* One step of the one upload of a scenario, run by task w: direct, or in
\* chunks with nothing failing.
Upload(w) ==
    \/ nextSid = 1 /\ UfStore(w, SomeUploads, OneDraw)
    \/ UfRecord(w)
    \/ /\ \/ /\ nextFid = 1
             /\ StartUpload(w, {None, 1}, {None, 1}, {PlainName}, OddMimes)
          \/ ChunkedSteps(w)
       /\ Quiet(w)

\* Files are uploaded by one task and downloaded by every task, each at
\* its own pace, while the clock runs.
NextDownload ==
    \/ Tick
    \/ Deliver
    \/ Upload(1)
    \/ \E w \in Workers : Download(w)

SpecDownload == Init /\ [][NextDownload]_vars

\* The same with one request in service at a time.
NextDownloadSeq ==
    \/ Tick
    \/ Deliver
    \/ Upload(1)
    \/ Download(1)

SpecDownloadSeq == Init /\ [][NextDownloadSeq]_vars

\* C22: a file with max_downloads = N is served at most N times, and the
\* answer "Download limit exceeded" is given for no file without
\* max_downloads.
C22_ServedWithinLimit ==
    \A f \in FileIds :
       /\ (files[f].exists /\ files[f].max_downloads # None)
          => served[f] <= files[f].max_downloads
       /\ (resp.res.op = "download" /\ resp.res.file_id = f
             /\ resp.res.msg = "Download limit exceeded")
          => files[f].max_downloads # None

\* C23: download_file_form answers a request for an id with no row with
\* not-found (404, "File not found"); one for a row whose expiry is past
\* with expired (410, "File expired"), whatever its count; one for an
\* unexpired row whose count has reached max_downloads with limit-reached
\* (410, "Download limit exceeded"); it gives these three answers at its
\* check in no other case, and with them no bytes are sent and nothing
\* is counted.  A failed read of the row is a database error instead.
C23_ThreeRejections ==
    [][\A w \in Workers :
          (wk[w].pc = "idle" /\ resp'.w = w /\ resp'.res.op = "download"
             /\ resp'.res.msg # "Database error")
          => LET r == resp'.res
                 file == files[r.file_id]
                 expired == file.expires_at # None /\ now > file.expires_at
                 limit == /\ file.max_downloads # None
                          /\ file.download_count >= file.max_downloads
             IN
             /\ ~file.exists <=> (r.code = 404 /\ r.msg = "File not found")
             /\ (file.exists /\ expired)
                   <=> (r.code = 410 /\ r.msg = "File expired")
             /\ (file.exists /\ ~expired /\ limit)
                   <=> (r.code = 410 /\ r.msg = "Download limit exceeded")
             /\ r.status = "err" /\ r.data = <<>>
             /\ files' = files /\ served' = served /\ blobs' = blobs]_vars

\* C23, its case: a file past its expiry whose count has reached its
\* max_downloads is answered with expired.
C23_Witness ==
    /\ resp.res.op = "download" /\ resp.res.msg = "File expired"
    /\ files[resp.res.file_id].max_downloads # None
    /\ files[resp.res.file_id].download_count
          >= files[resp.res.file_id].max_downloads

\* C24: the download count of a file is the number of download responses
\* that carried its bytes.
C24_CountIsServes ==
    \A f \in FileIds :
       files[f].exists => files[f].download_count = served[f]

\* C25: a download_file_form that answers with an error leaves every row,
\* the download counts included, and every blob as they were.
C25_FailedDownloadChangesNothing ==
    [][\A w \in Workers :
          (resp'.w = w /\ resp'.res.op = "download"
             /\ resp'.res.status = "err")
          => /\ files' = files
             /\ blobs' = blobs
             /\ served' = served]_vars

\* ------------------------------------------- cleanup_expired_upload_sessions
\* The rows a filter ExpiresAt.lte(t) would select.
ExpiredSessionsInclusive(t) ==
    {s \in SessionIds : sessions[s].exists /\ sessions[s].expires_at <= t}

\* The rows the filter ExpiresAt.lt(t) selects.
ExpiredSessions(t) ==
    {s \in SessionIds : sessions[s].exists /\ sessions[s].expires_at < t}

\* The least element of a set of ids: the row a loop comes to first.
First(S) == CHOOSE x \in S : \A y \in S : x <= y

\* cleanup_expired_upload_sessions: the time is read once and the expired
\* sessions are found.
CsFind(w) ==
    /\ At(w, "idle")
    /\ \/ Finish(w, ErrRes("sweep_sessions", 0, "Database error"))
       \/ Step(w, [IdleWorker EXCEPT
                     !.pc = IF ExpiredSessions(now) = {} THEN "cs_delete"
                            ELSE "cs_clean",
                     !.idx = now, !.rows = ExpiredSessions(now)])
    /\ UNCHANGED <<now, sessions, nextSid, chunkDir, chunks, files, nextFid,
                   blobs, nacks, acked, completed, max_file_size, served,
                   dirs, strays>>

\* cleanup_expired_upload_sessions: cleanup_upload of the next session
\* found; a failure is logged (the session is kept in mind as kept) and
\* the loop goes on.
CsClean(w) ==
    /\ At(w, "cs_clean")
    /\ LET upload_id == First(wk[w].rows)
           rest == wk[w].rows \ {upload_id}
           next == IF rest = {} THEN "cs_delete" ELSE "cs_clean"
       IN
       IF chunkDir[upload_id] = NoDir
       THEN /\ Step(w, [wk[w] EXCEPT !.pc = next, !.rows = rest])
            /\ UNCHANGED <<chunkDir, chunks, strays>>
       ELSE \/ /\ Step(w, [wk[w] EXCEPT !.pc = next, !.rows = rest,
                                        !.kept = @ \cup {upload_id}])
               /\ UNCHANGED <<chunkDir, chunks, strays>>
            \/ /\ chunkDir' = [chunkDir EXCEPT ![upload_id] = NoDir]
               /\ chunks' = WithoutUpload(chunks, upload_id, EmptyChunks)
               /\ strays' = WithoutUpload(strays, upload_id, {})
               /\ Step(w, [wk[w] EXCEPT !.pc = next, !.rows = rest])
    /\ UNCHANGED <<now, sessions, nextSid, files, nextFid, blobs, nacks, acked,
                   completed, max_file_size, served, dirs>>

\* cleanup_expired_upload_sessions: delete_many with the filter of the
\* find, at the time read then, and the number of rows it removed.
CsDelete(w) ==
    /\ At(w, "cs_delete")
    /\ \/ /\ Finish(w, ErrRes("sweep_sessions", 0, "Database error"))
          /\ UNCHANGED sessions
       \/ /\ sessions' = [s \in SessionIds |->
                            IF s \in ExpiredSessions(wk[w].idx)
                            THEN NoSession ELSE sessions[s]]
          /\ Finish(w, [NoRes EXCEPT
                          !.status = "ok", !.op = "sweep_sessions",
                          !.items_cleaned =
                              Cardinality(ExpiredSessions(wk[w].idx))])
    /\ UNCHANGED <<now, nextSid, chunkDir, chunks, files, nextFid, blobs,
                   nacks, acked, completed, max_file_size, served, dirs,
                   strays>>

\* One step of cleanup_expired_upload_sessions run by task w with the
\* database and the file system working.
QuietSessionSweep(w) ==
    /\ \/ CsFind(w)
       \/ CsClean(w)
       \/ CsDelete(w)
    /\ resp'.res.msg \notin FaultMsgs
    /\ wk'[w].kept = {}

\* One step of start_chunked_upload or upload_chunk run by task w with
\* the database and the file system working.
QuietChunkUpload(w) ==
    /\ \/ StartChunkedUpload(w)
       \/ UcBegin(w)
       \/ UcExists(w)
       \/ UcStore(w)
       \/ UcIncFind(w)
       \/ UcIncUpdate(w)
    /\ Quiet(w)

\* Chunks are uploaded by one task while another sweeps the expired
\* sessions, the clock running and nothing failing.
NextSweep ==
    \/ Tick
    \/ Deliver
    \/ QuietChunkUpload(1)
    \/ QuietSessionSweep(2)

SpecSweep == Init /\ [][NextSweep]_vars

\* C29: when cleanup_expired_upload_sessions returns, having read the
\* time t, no session with an expiry before t has a row or a chunk
\* directory, and a session with an expiry not before t has its row, its
\* counter and its chunks as they were when the sweep began to delete.
C29_SweepRemovesExpiredOnly ==
    [][\A w \in Workers :
          (wk[w].pc = "cs_delete" /\ resp'.w = w /\ resp'.res.status = "ok")
          => \A s \in SessionIds :
                IF sessions[s].exists /\ sessions[s].expires_at < wk[w].idx
                THEN /\ ~sessions'[s].exists
                     /\ chunkDir'[s] = NoDir
                     /\ chunks'[s] = EmptyChunks
                ELSE /\ sessions'[s] = sessions[s]
                     /\ chunkDir'[s] = chunkDir[s]
                     /\ chunks'[s] = chunks[s]]_vars

\* ------------------------------------- cleanup_expired_files, delete_file_by_id
\* The rows the filter ExpiresAt.lt(t) selects: a row without expires_at
\* (NULL) is never among them.
ExpiredFiles(t) ==
    {f \in FileIds : /\ files[f].exists
                     /\ files[f].expires_at # None
                     /\ files[f].expires_at < t}

\* The models a find returns for the rows F.
Models(F) == {[id |-> f, file_path |-> files[f].file_path] : f \in F}

\* The model a loop over the models S comes to first.
FirstModel(S) == CHOOSE m \in S : \A o \in S : m.id <= o.id

\* read_dir(d) yields no entry in a tree with the files bl and the
\* directories ds.
EmptyIn(d, bl, ds) ==
    /\ \A path \in FilePaths : Parent(path) = d => bl[path] = NoBlob
    /\ \A sub \in ds : Parent(sub) # d

\* cleanup_empty_dirs(path) with the file system working: the directories
\* left of ds once every empty parent inside the root is removed.
RECURSIVE CleanupEmptyDirs(_, _, _)
CleanupEmptyDirs(ds, bl, path) ==
    LET parent == Parent(path) IN
    IF /\ StartsWith(parent, Root)
       /\ parent # Root
       /\ parent \in ds
       /\ EmptyIn(parent, bl, ds)
    THEN CleanupEmptyDirs(ds \ {parent}, bl, parent)
    ELSE ds

\* cleanup_expired_files: the time is read once and the expired rows are
\* found.
CfFind(w) ==
    /\ At(w, "idle")
    /\ \/ Finish(w, ErrRes("sweep_files", 0, "Database error"))
       \/ Step(w, [IdleWorker EXCEPT
                     !.pc = IF ExpiredFiles(now) = {} THEN "cf_delete"
                            ELSE "cf_clean",
                     !.idx = now, !.rows = Models(ExpiredFiles(now))])
    /\ UNCHANGED <<now, sessions, nextSid, chunkDir, chunks, files, nextFid,
                   blobs, nacks, acked, completed, max_file_size, served,
                   dirs, strays>>

\* delete_file_by_id: the row of the id is looked for; without one the
\* answer is Ok(false).
ByIdFind(w) ==
    /\ At(w, "idle")
    /\ \E f \in FileIds :
         \/ Finish(w, ErrRes("delete_by_id", 0, "Database error"))
         \/ IF files[f].exists
            THEN Step(w, [IdleWorker EXCEPT !.pc = "cf_clean", !.fid = f,
                                            !.rows = Models({f})])
            ELSE Finish(w, [NoRes EXCEPT !.status = "ok",
                                         !.op = "delete_by_id",
                                         !.file_id = f])
    /\ UNCHANGED <<now, sessions, nextSid, chunkDir, chunks, files, nextFid,
                   blobs, nacks, acked, completed, max_file_size, served,
                   dirs, strays>>

\* storage.delete_file(&file.file_path) for the next row found, in both
\* callers: a file that is not there is fine, a removal that fails is
\* logged (the row is kept in mind as kept) and the caller goes on; after
\* a removal the empty parents are cleaned up.
CfClean(w) ==
    /\ At(w, "cf_clean")
    /\ LET file == FirstModel(wk[w].rows)
           file_path == Join(Root, file.file_path)
           rest == wk[w].rows \ {file}
           next == IF rest # {} THEN "cf_clean"
                   ELSE IF wk[w].fid = 0 THEN "cf_delete" ELSE "by_id_delete"
           removed == [blobs EXCEPT ![file_path] = NoBlob]
       IN
       IF Content(file_path) = NoBlob
       THEN /\ Step(w, [wk[w] EXCEPT !.pc = next, !.rows = rest])
            /\ UNCHANGED <<blobs, dirs>>
       ELSE \/ /\ Step(w, [wk[w] EXCEPT !.pc = next, !.rows = rest,
                                        !.kept = @ \cup {file.id}])
               /\ UNCHANGED <<blobs, dirs>>
            \/ /\ blobs' = removed
               /\ dirs' = CleanupEmptyDirs(dirs, removed, file_path)
               /\ Step(w, [wk[w] EXCEPT !.pc = next, !.rows = rest])
    /\ UNCHANGED <<now, sessions, nextSid, chunkDir, chunks, files, nextFid,
                   nacks, acked, completed, max_file_size, served, strays>>

\* cleanup_expired_files: delete_many with the filter of the find, at the
\* time read then, and the number of rows it removed.
CfDelete(w) ==
    /\ At(w, "cf_delete")
    /\ \/ /\ Finish(w, ErrRes("sweep_files", 0, "Database error"))
          /\ UNCHANGED files
       \/ /\ files' = [f \in FileIds |->
                         IF f \in ExpiredFiles(wk[w].idx)
                         THEN NoFile ELSE files[f]]
          /\ Finish(w, [NoRes EXCEPT
                          !.status = "ok", !.op = "sweep_files",
                          !.items_cleaned =
                              Cardinality(ExpiredFiles(wk[w].idx))])
    /\ UNCHANGED <<now, sessions, nextSid, chunkDir, chunks, nextFid, blobs,
                   nacks, acked, completed, max_file_size, served, dirs,
                   strays>>

\* delete_file_by_id: delete_by_id of the row found, and Ok(true).
ByIdDelete(w) ==
    /\ At(w, "by_id_delete")
    /\ \/ /\ Finish(w, ErrRes("delete_by_id", 0, "Database error"))
          /\ UNCHANGED files
       \/ /\ files' = [files EXCEPT ![wk[w].fid] = NoFile]
          /\ Finish(w, [NoRes EXCEPT !.status = "ok", !.op = "delete_by_id",
                                     !.file_id = wk[w].fid,
                                     !.items_cleaned = 1])
    /\ UNCHANGED <<now, sessions, nextSid, chunkDir, chunks, nextFid, blobs,
                   nacks, acked, completed, max_file_size, served, dirs,
                   strays>>

\* One step of cleanup_expired_files or delete_file_by_id run by task w
\* with the database and the file system working.
QuietDeletion(w) ==
    /\ \/ CfFind(w)
       \/ ByIdFind(w)
       \/ CfClean(w)
       \/ CfDelete(w)
       \/ ByIdDelete(w)
    /\ resp'.res.msg \notin FaultMsgs
    /\ wk'[w].kept = {}

\* One file is uploaded by one task, with or without an expiry, while
\* another deletes files by id and by the sweep, the clock running.
NextExpire ==
    \/ Tick
    \/ Deliver
    \/ Upload(1)
    \/ QuietDeletion(2)

SpecExpire == Init /\ [][NextExpire]_vars

\* C30: when a deletion (by id, or by cleanup_expired_files at time t)
\* returns, every row it was to delete (the row of the id; the rows with
\* an expiry before t) is gone together with its blob, also when the blob
\* was missing before; and it leaves every other row, so every row without
\* expiry or with an expiry not before t, and the blobs as they were.
C30_DeletionRemovesRowAndBlob ==
    [][\A w \in Workers :
          (/\ wk[w].pc \in {"cf_delete", "by_id_delete"}
           /\ resp'.w = w
           /\ resp'.res.status = "ok")
          => LET F == IF wk[w].pc = "by_id_delete"
                      THEN {wk[w].fid}
                      ELSE {f \in FileIds :
                              /\ files[f].exists
                              /\ files[f].expires_at # None
                              /\ files[f].expires_at < wk[w].idx}
             IN
             \A f \in FileIds :
                IF f \in F
                THEN /\ ~files'[f].exists
                     /\ files[f].exists
                        => Content(Join(Root, files[f].file_path)) = NoBlob
                ELSE /\ files'[f] = files[f]
                     /\ blobs' = blobs]_vars

\* One request at a time, anything failing that can: files are uploaded in
\* chunks to expire an hour after completion, and the two sweeps run.
NextBestEffort ==
    \/ Tick
    \/ Deliver
    \/ StartUpload(1, {1}, {None}, {PlainName}, {NoText})
    \/ ChunkedSteps(1)
    \/ CsFind(1)
    \/ CsClean(1)
    \/ CsDelete(1)
    \/ CfFind(1)
    \/ CfClean(1)
    \/ CfDelete(1)

SpecBestEffort == Init /\ [][NextBestEffort]_vars

\* C31: once complete_chunked_upload has created the file row, its
\* cleanup_upload and its delete_upload_session end in no error whatever
\* they meet: the handler goes on and answers success with the id of the
\* row, which is there.  In the two sweeps no failing removal of a chunk
\* directory or a blob answers or stops the sweep, and when the sweep's
\* delete_many answers Ok the rows whose directory or blob stayed are gone.
C31_CleanupNeverAborts ==
    [][\A w \in Workers :
          /\ (wk[w].pc = "cc_cleanup" /\ wk'[w] # wk[w])
             => /\ resp' = NoResp
                /\ wk'[w].pc = "cc_delete"
                /\ files'[wk[w].fid] = files[wk[w].fid]
          /\ (wk[w].pc = "cc_delete" /\ wk'[w] # wk[w])
             => /\ resp'.res.status = "ok"
                /\ resp'.res.op = "complete"
                /\ resp'.res.file_id = wk[w].fid
                /\ files'[wk[w].fid].exists
                /\ files'[wk[w].fid].file_path = wk[w].file_path
          /\ (wk[w].pc = "cs_clean" /\ wk'[w] # wk[w])
             => /\ resp' = NoResp
                /\ wk'[w].pc \in {"cs_clean", "cs_delete"}
                /\ sessions' = sessions
          /\ (wk[w].pc = "cf_clean" /\ wk'[w] # wk[w])
             => /\ resp' = NoResp
                /\ wk'[w].pc \in {"cf_clean", "cf_delete"}
                /\ files' = files
          /\ (/\ wk[w].pc = "cs_delete"
              /\ resp'.w = w
              /\ resp'.res.status = "ok")
             => \A s \in wk[w].kept :
                   ~sessions'[s].exists /\ chunkDir'[s] # NoDir
          /\ (/\ wk[w].pc = "cf_delete"
              /\ resp'.w = w
              /\ resp'.res.status = "ok")
             => \A f \in wk[w].kept :
                   /\ ~files'[f].exists
                   /\ Content(Join(Root, files[f].file_path)) # NoBlob]_vars

\* C31's case: complete_chunked_upload has answered success with the new
\* file row although the chunk directory could not be removed and the
\* session row could not be deleted.
C31_Witness ==
    /\ resp.res.status = "ok"
    /\ resp.res.op = "complete"
    /\ files[resp.res.file_id].exists
    /\ sessions[resp.res.sid].exists
    /\ chunkDir[resp.res.sid] # NoDir

\* C32: a start_chunked_upload that answers an error has created no
\* session; one that answers success has inserted, under an upload id that
\* had no row, a row with uploaded_chunks = 0, 0 < total_size <=
\* max_file_size, 0 < chunk_size <= the cap and the total_chunks of its
\* answer, and has changed no other row.  So a request with total_size <= 0
\* or above the maximum, or chunk_size <= 0 or above the cap, creates none.
C32_StartValidates ==
    [][\A w \in Workers :
          (resp = NoResp /\ resp'.w = w /\ resp'.res.op = "start")
          => IF resp'.res.status = "ok"
             THEN LET sid == resp'.res.sid
                      row == sessions'[sid]
                  IN /\ ~sessions[sid].exists
                     /\ row.exists
                     /\ row.uploaded_chunks = 0
                     /\ 0 < row.total_size
                     /\ row.total_size <= max_file_size
                     /\ 0 < row.chunk_size
                     /\ row.chunk_size <= ChunkSizeCap
                     /\ row.total_chunks = resp'.res.total_chunks
                     /\ \A s \in SessionIds \ {sid} : sessions'[s] = sessions[s]
             ELSE /\ sessions' = sessions
                  /\ nextSid' = nextSid]_vars

\* C32's case: start_chunked_upload has rejected a chunk size and there is
\* no session.
C32_Witness ==
    /\ resp.res.op = "start"
    /\ resp.res.status = "err"
    /\ resp.res.msg = "Invalid chunk size"
    /\ \A s \in SessionIds : ~sessions[s].exists

\* ------------------------------------------------------- sessions, side by side
\* One step of upload_chunk, get_upload_status or
\* complete_chunked_upload run by task w.
SessionStep(w) ==
    \/ UcBegin(w)
    \/ UcExists(w)
    \/ UcStore(w)
    \/ UcIncFind(w)
    \/ UcIncUpdate(w)
    \/ CcBegin(w)
    \/ CcAssemble(w)
    \/ CcStore(w)
    \/ CcRecord(w)
    \/ CcCleanup(w)
    \/ CcDelete(w)
    \/ StBegin(w)
    \/ StList(w)

\* The requests task w serves name session sid.
Serves(w, sid) ==
    /\ wk'[w].sid \in {0, sid}
    /\ resp'.w = w => resp'.res.sid = sid

\* The chunks stored hold bytes 0 only.
ZeroBytes ==
    \A u \in UploadIds, n \in ChunkIdx :
        chunks'[u][n] # NoChunk
        => \A i \in 1..Len(chunks'[u][n]) : chunks'[u][n][i] = 0

\* Upload ids are handed out to every session the tables hold; each task
\* serves the requests for one session, at its own pace, and the last
\* task also sweeps the expired sessions, while the clock runs and the
\* database and the file system work.
NextBeside ==
    \/ Tick
    \/ Deliver
    \/ /\ StartSession(1, SessionIds, {None}, {None}, {PlainName}, {NoText})
       /\ Quiet(1)
    \/ \E w \in Workers :
          SessionStep(w) /\ Serves(w, w) /\ Quiet(w) /\ ZeroBytes
    \/ QuietSessionSweep(NumWorkers)

SpecBeside == Init /\ [][NextBeside]_vars

\* C33: a step of a handler that acts on one session (start, upload_chunk,
\* status, complete) changes the row, the chunks and the chunk directory of
\* no other session that has not expired, and a step of the session sweep
\* changes those of no session that has not expired.
C33_SessionsIndependent ==
    [][\A w \in Workers, s \in SessionIds :
          LET u == IF wk[w].pc # "idle" THEN wk[w].sid
                   ELSE IF resp' # NoResp THEN resp'.res.sid
                   ELSE wk'[w].sid
          IN
          (/\ wk'[w] # wk[w] \/ resp'.w = w
           /\ s # u
           /\ sessions[s].exists
           /\ ~(now > sessions[s].expires_at))
          => /\ sessions'[s] = sessions[s]
             /\ chunks'[s] = chunks[s]
             /\ chunkDir'[s] = chunkDir[s]]_vars

\* C33's case: a chunk of one session has been accepted while another
\* session, not expired, has a chunk stored and counted.
C33_Witness ==
    /\ resp.res.status = "ok"
    /\ resp.res.op = "chunk"
    /\ resp.res.msg = ""
    /\ \E s \in SessionIds \ {resp.res.sid} :
          /\ sessions[s].exists
          /\ ~(now > sessions[s].expires_at)
          /\ sessions[s].uploaded_chunks = 1
          /\ chunks[s][0] # NoChunk

\* ------------------------------------------------ one session, several tasks
\* The server within one hour with nothing failing: every task running
\* handlers at its own pace.
NextQuietRace ==
    \/ Deliver
    \/ \E w \in Workers : QuietHandler(w)

SpecQuietRace == Init /\ [][NextQuietRace]_vars

\* C34: whenever a session that has not expired has uploaded_chunks >=
\* total_chunks, and no complete_chunked_upload is past creating its file
\* (where it removes the chunks), every chunk number in [0, total_chunks)
\* has its chunk in the chunk store.
C34_CompleteMeansAllChunks ==
    \A s \in SessionIds :
        (/\ sessions[s].exists
         /\ ~(now > sessions[s].expires_at)
         /\ sessions[s].uploaded_chunks >= sessions[s].total_chunks
         /\ \A w \in Workers :
               ~(wk[w].sid = s /\ wk[w].pc \in {"cc_cleanup", "cc_delete"}))
        => \A n \in 0..(sessions[s].total_chunks - 1) :
              chunks[s][n] # NoChunk

\* One step of a chunked-upload handler run by task w with nothing
\* failing, complete_chunked_upload taking a new file id at every call.
QuietUploadStep(w) ==
    /\ \/ StartChunkedUpload(w)
       \/ UcBegin(w)
       \/ UcExists(w)
       \/ UcStore(w)
       \/ UcIncFind(w)
       \/ UcIncUpdate(w)
       \/ CcBegin(w)
       \/ CcAssemble(w)
       \/ CcStoreAs(w, FileIds)
       \/ CcRecord(w)
       \/ CcCleanup(w)
       \/ CcDelete(w)
    /\ Quiet(w)

\* Files are uploaded in chunks and completed by every task at its own
\* pace within one hour, nothing failing.
NextOnce ==
    \/ Deliver
    \/ \E w \in Workers : QuietUploadStep(w)

SpecOnce == Init /\ [][NextOnce]_vars

\* C35: there are never more file rows, nor more stored blobs, than upload
\* sessions were started: a session gives at most one file.
C35_OneFilePerSession ==
    /\ Cardinality({f \in FileIds : files[f].exists}) <= nextSid - 1
    /\ Cardinality({path \in FilePaths : blobs[path] # NoBlob}) <= nextSid - 1

\* C36: no download response carries the bytes of a file that has been
\* served max_downloads times already: a step that serves the file leaves
\* the number of its serves within max_downloads.
C36_NoServeBeyondLimit ==
    [][\A f \in FileIds :
          (/\ served'[f] > served[f]
           /\ files[f].exists
           /\ files[f].max_downloads # None)
          => served'[f] <= files[f].max_downloads]_vars

\* Uploads and downloads by one task beside the deletions of another.
NextServeExpire ==
    \/ Tick
    \/ Deliver
    \/ Upload(1)
    \/ Download(1)
    \/ QuietDeletion(2)

SpecServeExpire == Init /\ [][NextServeExpire]_vars

\* C37: every file row has its blob: the file at the row's file_path is
\* stored for as long as the row is there, and no download of a file whose
\* row is there is answered "File not found".
C37_RowHasBlob ==
    \A f \in FileIds :
        files[f].exists =>
            /\ Content(Join(Root, files[f].file_path)) # NoBlob
            /\ ~(/\ resp.res.op = "download"
                 /\ resp.res.file_id = f
                 /\ resp.res.msg = ErrorText("FileNotFound"))

\* ------------------------------------- ChunkStorage::cleanup_expired_sessions
\* The age, in hours, beyond which the sweep removes an upload directory.
SweepAge == 2

\* cleanup_expired_sessions after an entry: the next entry, or Ok(count)
\* when read_dir has no more.
BsNext(w, rest, count) ==
    IF rest = {}
    THEN Finish(w, [NoRes EXCEPT !.status = "ok", !.op = "sweep_chunks",
                                 !.items_cleaned = count])
    ELSE Step(w, [wk[w] EXCEPT !.pc = "bs_stat", !.rows = rest,
                               !.idx = count, !.sid = 0])

\* cleanup_expired_sessions: with no chunk root, or none of its entries a
\* directory, Ok(0); else read_dir, which may fail, lists the directories.
BsBegin(w) ==
    /\ At(w, "idle")
    /\ LET entries == {u \in UploadIds : chunkDir[u] # NoDir} IN
       \/ Finish(w, ErrRes("sweep_chunks", 0,
                           "Failed to read chunks directory"))
       \/ IF entries = {}
          THEN Finish(w, [NoRes EXCEPT !.status = "ok",
                                       !.op = "sweep_chunks"])
          ELSE Step(w, [IdleWorker EXCEPT !.pc = "bs_stat",
                                          !.rows = entries, !.idx = 0])
    /\ UNCHANGED <<now, sessions, nextSid, chunkDir, chunks, files, nextFid,
                   blobs, nacks, acked, completed, max_file_size, served,
                   dirs, strays>>

\* cleanup_expired_sessions, the next entry: next_entry and file_type may
\* fail and end the sweep; metadata and created may fail (they do for a
\* directory that is gone) and the entry is passed over, as is a directory
\* created no more than SweepAge ago; an older one is to be removed.
BsStat(w) ==
    /\ At(w, "bs_stat")
    /\ LET u == First(wk[w].rows)
           rest == wk[w].rows \ {u}
           created == chunkDir[u]
       IN
       \/ Finish(w, ErrRes("sweep_chunks", 0,
                           "Failed to read directory entry"))
       \/ Finish(w, ErrRes("sweep_chunks", 0, "Failed to get file type"))
       \/ BsNext(w, rest, wk[w].idx)
       \/ /\ created # NoDir
          /\ now - created > SweepAge
          /\ Step(w, [wk[w] EXCEPT !.pc = "bs_remove", !.sid = u,
                                   !.rows = rest])
    /\ UNCHANGED <<now, sessions, nextSid, chunkDir, chunks, files, nextFid,
                   blobs, nacks, acked, completed, max_file_size, served,
                   dirs, strays>>

\* cleanup_expired_sessions: remove_dir_all of the directory found old; it
\* is counted when it succeeded, and the sweep goes on either way.
BsRemove(w) ==
    /\ At(w, "bs_remove")
    /\ LET u == wk[w].sid IN
       \/ /\ BsNext(w, wk[w].rows, wk[w].idx)
          /\ UNCHANGED <<chunkDir, chunks, strays>>
       \/ /\ chunkDir[u] # NoDir
          /\ chunkDir' = [chunkDir EXCEPT ![u] = NoDir]
          /\ chunks' = WithoutUpload(chunks, u, EmptyChunks)
          /\ strays' = WithoutUpload(strays, u, {})
          /\ BsNext(w, wk[w].rows, wk[w].idx + 1)
    /\ UNCHANGED <<now, sessions, nextSid, files, nextFid, blobs, nacks, acked,
                   completed, max_file_size, served, dirs>>

\* One step of cleanup_expired_sessions run by task w with the file system
\* working.
QuietChunkSweep(w) ==
    /\ \/ BsBegin(w)
       \/ BsStat(w)
       \/ BsRemove(w)
    /\ resp'.res.status # "err"

\* The hour up to which the clock runs beside the sweep of the chunk store.
SweepTime == 3

\* A chunked upload by one task, the sweep of the expired sessions by
\* another, and the chunk store's sweep beside them.
NextBackstop ==
    \/ TickUntil(SweepTime)
    \/ Deliver
    \/ QuietChunkUpload(1)
    \/ QuietSessionSweep(2)
    \/ QuietChunkSweep(Janitor)

SpecBackstop == Init /\ [][NextBackstop]_vars

\* C38: the chunk store's sweep removes no directory of a session that is
\* there and not expired, and no directory created SweepAge hours ago or
\* less.
C38_SweepRemovesOldOnly ==
    [][\A u \in UploadIds :
          (/\ wk[Janitor].pc = "bs_remove"
           /\ wk'[Janitor] # wk[Janitor]
           /\ chunkDir[u] # NoDir
           /\ chunkDir'[u] = NoDir)
          => /\ ~(sessions[u].exists /\ ~SessionIsExpired(sessions[u], now))
             /\ now - chunkDir[u] > SweepAge]_vars

\* ------------------------------------------------------------- round trips
\* A file name with a line break in it: "a\r".
BreakName == <<LetterA, CarriageReturn>>

\* The uploads of the round trips, as pairs of bytes and file name: zeros
\* under the plain name, ones under the name with the line break.
Originals ==
    {<<[i \in 1..n |-> 0], PlainName>> : n \in 1..MaxFileSize}
        \cup {<<[i \in 1..n |-> 1], BreakName>> : n \in 1..MaxFileSize}

\* The direct uploads of the round trips: those under the plain name, the
\* file name of a multipart field being part of a header line.
OriginalRequests ==
    {[file_data |-> o[1], filename |-> o[2], mime_type |-> NoText,
      expires_in_hours |-> None, max_downloads |-> None] :
        o \in {p \in Originals : p[2] = PlainName}}

\* The chunks written in this step are of the bytes that go with the file
\* name of their session.
OriginalChunks ==
    \A u \in UploadIds, n \in ChunkIdx :
        (chunks'[u][n] # chunks[u][n] /\ chunks'[u][n] # NoChunk)
        => \E o \in Originals :
              /\ o[2] = sessions[u].filename
              /\ \A i \in 1..Len(chunks'[u][n]) : chunks'[u][n][i] = o[1][1]

\* One file is uploaded, directly or in chunks, and downloaded, one
\* request at a time with nothing failing in the chunked upload.
NextRoundTrip ==
    \/ Deliver
    \/ nextSid = 1 /\ UfStore(1, OriginalRequests, OneDraw)
    \/ UfRecord(1)
    \/ /\ \/ /\ nextFid = 1
             /\ StartUpload(1, {None}, {None}, {PlainName, BreakName},
                            {NoText})
          \/ ChunkedSteps(1)
       /\ Quiet(1)
       /\ OriginalChunks
    \/ Download(1)

SpecRoundTrip == Init /\ [][NextRoundTrip]_vars

\* C39: a download that returns a file returns the bytes and the file name
\* that were uploaded, for a file uploaded in chunks (downloaded with an
\* empty key) and for a file uploaded directly (downloaded with its key).
C39_RoundTrip ==
    (resp.res.op = "download" /\ resp.res.status = "ok")
    => <<resp.res.data, resp.res.filename>> \in Originals

=============================================================================
